---------------------------- MODULE Spec2Model ----------------------------
(***************************************************************************)
(* O'Brien's Storage Finder: the item-to-size estimator                    *)
(* (calculate_size_from_items), the size resolution of display_results /   *)
(* show_results, the closest-size selection of get_known_size, and the     *)
(* live pricing cache SITE_PRICING filled by get_pricing_from_api and      *)
(* get_available_sizes.                                                    *)
(*                                                                         *)
(* Python strings are TLA+ strings; a character is a string of length 1.   *)
(* Volumes are kept in tenths of a cubic foot (the catalog holds 1.5 and   *)
(* 4.5), money in pence.                                                   *)
(***************************************************************************)
EXTENDS Integers, Sequences, FiniteSets, TLC

(***************************************************************************)
(* Python string primitives used by the program.                           *)
(***************************************************************************)

\* s[i] for a 1-based index i
CharAt(s, i) == SubSeq(s, i, i)

\* the characters str.strip() removes and str.split() splits on
Whitespace == {" ", "\t"}

Digits == "0123456789"

UpperCase == "ABCDEFGHIJKLMNOPQRSTUVWXYZ"

LowerCase == "abcdefghijklmnopqrstuvwxyz"

\* the position of character c in string s, 0 when absent
IndexOf(s, c) ==
  IF \E i \in 1..Len(s) : CharAt(s, i) = c
  THEN CHOOSE i \in 1..Len(s) : CharAt(s, i) = c /\ \A j \in 1..(i-1) : CharAt(s, j) # c
  ELSE 0

\* str.lower() on one character
LowerChar(c) ==
  IF IndexOf(UpperCase, c) # 0 THEN CharAt(LowerCase, IndexOf(UpperCase, c)) ELSE c

RECURSIVE Lower(_)
\* str.lower()
Lower(s) ==
  IF Len(s) = 0 THEN "" ELSE LowerChar(CharAt(s, 1)) \o Lower(SubSeq(s, 2, Len(s)))

\* str.strip(): without the leading and the trailing whitespace
Strip(s) ==
  LET solid == {i \in 1..Len(s) : CharAt(s, i) \notin Whitespace}
  IN  IF solid = {} THEN ""
      ELSE SubSeq(s, CHOOSE i \in solid : \A j \in solid : i <= j,
                     CHOOSE i \in solid : \A j \in solid : i >= j)

RECURSIVE SplitFrom(_, _)
\* the whitespace-separated words of s from position i on
SplitFrom(s, i) ==
  IF i > Len(s) THEN <<>>
  ELSE IF CharAt(s, i) \in Whitespace THEN SplitFrom(s, i + 1)
  ELSE LET stops == {j \in i..Len(s) : CharAt(s, j) \in Whitespace}
           end == IF stops = {} THEN Len(s) + 1
                  ELSE CHOOSE j \in stops : \A k \in stops : j <= k
       IN  <<SubSeq(s, i, end - 1)>> \o SplitFrom(s, end)

\* str.split() with no separator
Split(s) == SplitFrom(s, 1)

RECURSIVE Join(_)
\* ' '.join(words)
Join(words) ==
  IF Len(words) = 0 THEN ""
  ELSE IF Len(words) = 1 THEN words[1]
  ELSE words[1] \o " " \o Join(Tail(words))

\* str.isdigit() over the ASCII alphabet of the model
IsDigit(word) ==
  Len(word) > 0 /\ \A i \in 1..Len(word) : IndexOf(Digits, CharAt(word, i)) # 0

RECURSIVE ToInt(_)
\* int(word) for a word of decimal digits
ToInt(word) ==
  IF Len(word) = 0 THEN 0
  ELSE 10 * ToInt(SubSeq(word, 1, Len(word) - 1)) + (IndexOf(Digits, CharAt(word, Len(word))) - 1)

\* str.startswith(prefix)
StartsWith(s, prefix) ==
  Len(s) >= Len(prefix) /\ SubSeq(s, 1, Len(prefix)) = prefix

\* the Python test `sub in s` on strings
Contains(s, sub) ==
  \E i \in 1..(Len(s) - Len(sub) + 1) : SubSeq(s, i, i + Len(sub) - 1) = sub


(***************************************************************************)
(* The static tables.  A Python dict literal is the sequence of its        *)
(* key/value pairs in source order; a repeated key keeps its last value.   *)
(***************************************************************************)

\* the keys of a dict literal
DictKeys(literal) == {literal[i][1] : i \in DOMAIN literal}

\* the dict a literal evaluates to
DictOf(literal) ==
  [k \in DictKeys(literal) |->
     literal[CHOOSE i \in DOMAIN literal :
               /\ literal[i][1] = k
               /\ \A j \in DOMAIN literal : literal[j][1] = k => j <= i][2]]

\* the pairs of ITEM_CUBIC_FEET, volumes in tenths of a cubic foot
ITEM_CUBIC_FEET_literal ==
  <<
    <<"sofa", 500>>, <<"2 seater sofa", 350>>, <<"3 seater sofa", 500>>,
    <<"4 seater sofa", 600>>, <<"corner sofa", 700>>, <<"sofa bed", 550>>, <<"loveseat", 350>>,
    <<"armchair", 100>>, <<"rocking chair", 120>>, <<"recliner chair", 200>>,
    <<"chaise longue", 250>>, <<"settee", 500>>, <<"couch", 500>>, <<"futon", 400>>,
    <<"television", 100>>, <<"tv", 100>>, <<"telly", 100>>, <<"flat screen", 100>>,
    <<"microwave", 80>>, <<"fridge", 650>>, <<"freezer", 650>>, <<"fridge freezer", 650>>,
    <<"washing machine", 250>>, <<"washer", 250>>, <<"dryer", 250>>, <<"dishwasher", 250>>,
    <<"dish washer", 250>>, <<"oven", 150>>, <<"cooker", 150>>, <<"hob", 50>>,
    <<"extractor", 30>>, <<"printer", 80>>, <<"computer", 50>>, <<"laptop", 20>>,
    <<"desktop", 50>>, <<"double bed", 600>>, <<"single bed", 400>>, <<"king bed", 700>>,
    <<"super king bed", 750>>, <<"bunk bed", 650>>, <<"bed frame", 300>>, <<"mattress", 400>>,
    <<"bedside table", 80>>, <<"wardrobe", 450>>, <<"chest of drawers", 200>>,
    <<"dressing table", 250>>, <<"mirror", 50>>, <<"full length mirror", 80>>, <<"box", 30>>,
    <<"small box", 15>>, <<"medium box", 30>>, <<"large box", 45>>, <<"extra-large box", 60>>,
    <<"wardrobe box", 100>>, <<"mirror box", 50>>, <<"archive box", 30>>, <<"crate", 30>>,
    <<"suitcase", 80>>, <<"rucksack", 30>>, <<"bin", 50>>, <<"storage box", 40>>,
    <<"plastic box", 40>>, <<"chair", 100>>, <<"dining chair", 80>>, <<"office chair", 120>>,
    <<"stool", 50>>, <<"table", 200>>, <<"dining table", 300>>, <<"coffee table", 150>>,
    <<"side table", 80>>, <<"kitchen table", 300>>, <<"dining table and chairs", 500>>,
    <<"desk", 250>>, <<"work desk", 250>>, <<"office desk", 250>>, <<"bookcase", 200>>,
    <<"bookshelf", 200>>, <<"filing cabinet", 150>>, <<"sideboard", 300>>, <<"buffet", 300>>,
    <<"display cabinet", 250>>, <<"tv stand", 150>>, <<"tv cabinet", 150>>, <<"bike", 300>>,
    <<"bicycle", 300>>, <<"motorbike", 1200>>, <<"car", 1500>>, <<"vehicle", 1500>>,
    <<"scooter", 400>>, <<"pushbike", 300>>, <<"mountain bike", 350>>, <<"quad bike", 1000>>,
    <<"atv", 1000>>, <<"jet ski", 800>>, <<"jetski", 800>>, <<"tools", 30>>,
    <<"tool box", 40>>, <<"tool chest", 100>>, <<"lawn mower", 150>>, <<"hedge trimmer", 100>>,
    <<"strimmer", 80>>, <<"garden tools", 50>>, <<"drill", 20>>, <<"saw", 30>>,
    <<"hammer", 10>>, <<"screwdriver", 10>>, <<"wrench", 10>>, <<"garden chair", 80>>,
    <<"garden table", 200>>, <<"shed", 600>>, <<"garden shed", 600>>, <<"barbecue", 200>>,
    <<"bbq", 200>>, <<"planter", 120>>, <<"flower pot", 120>>, <<"patio furniture", 300>>,
    <<"sun lounger", 150>>, <<"umbrella", 50>>, <<"surfboard", 120>>, <<"surf board", 120>>,
    <<"treadmill", 500>>, <<"exercise bike", 400>>, <<"gym equipment", 300>>,
    <<"weights", 200>>, <<"yoga mat", 20>>, <<"tent", 150>>, <<"camping gear", 200>>,
    <<"fishing gear", 100>>, <<"golf clubs", 80>>, <<"books", 100>>, <<"book", 10>>,
    <<"magazines", 50>>, <<"dvds", 30>>, <<"cds", 20>>, <<"records", 50>>, <<"vinyl", 50>>,
    <<"games", 30>>, <<"board games", 50>>, <<"clothes", 150>>, <<"clothing", 150>>,
    <<"shoes", 50>>, <<"boots", 80>>, <<"bags", 30>>, <<"rug", 100>>, <<"carpet", 100>>,
    <<"curtains", 50>>, <<"bedding", 80>>, <<"towels", 30>>, <<"duvet", 50>>, <<"pillow", 20>>,
    <<"blanket", 40>>, <<"pots", 80>>, <<"pans", 80>>, <<"crockery", 50>>, <<"plates", 30>>,
    <<"cups", 20>>, <<"glasses", 20>>, <<"cutlery", 20>>, <<"kitchen utensils", 50>>,
    <<"blender", 30>>, <<"toaster", 30>>, <<"kettle", 20>>, <<"coffee machine", 50>>,
    <<"ladder", 100>>, <<"step ladder", 80>>, <<"paint tins", 60>>, <<"paint", 60>>,
    <<"cleaning supplies", 50>>, <<"vacuum cleaner", 80>>, <<"iron", 20>>, <<"fan", 50>>,
    <<"heater", 50>>, <<"radiator", 80>>, <<"clock", 10>>, <<"picture", 20>>, <<"frame", 10>>,
    <<"ornament", 10>>, <<"vase", 20>>, <<"plant", 30>>, <<"art", 50>>, <<"painting", 30>>
  >>

ITEM_CUBIC_FEET == DictOf(ITEM_CUBIC_FEET_literal)

\* the pairs of the first assignment to ALIASES
ALIASES_literal ==
  <<
    <<"tv", "television">>, <<"telly", "television">>, <<"flat screen", "television">>,
    <<"smart tv", "television">>, <<"plasma", "television">>, <<"lcd", "television">>,
    <<"fridge", "fridge freezer">>, <<"freezer", "fridge freezer">>,
    <<"american fridge", "fridge freezer">>, <<"fridgefreezer", "fridge freezer">>,
    <<"washer", "washing machine">>, <<"washing mashine", "washing machine">>,
    <<"washingmachin", "washing machine">>, <<"washing", "washing machine">>,
    <<"dish washer", "dishwasher">>, <<"dishwshr", "dishwasher">>,
    <<"dishwasing machine", "dishwasher">>, <<"dish", "dishwasher">>, <<"archive box", "box">>,
    <<"boxes", "box">>, <<"crate", "box">>, <<"cardboard box", "box">>,
    <<"plastic box", "storage box">>, <<"storage boxes", "storage box">>,
    <<"bookshelf", "bookcase">>, <<"book shelf", "bookcase">>, <<"book shelv", "bookcase">>,
    <<"shelf", "bookcase">>, <<"shelves", "bookcase">>, <<"2 seater", "2 seater sofa">>,
    <<"two seater", "2 seater sofa">>, <<"3 seater", "3 seater sofa">>,
    <<"three seater", "3 seater sofa">>, <<"4 seater", "4 seater sofa">>,
    <<"four seater", "4 seater sofa">>, <<"4seater", "4 seater sofa">>,
    <<"corner settee", "corner sofa">>, <<"corner", "corner sofa">>,
    <<"sectional", "corner sofa">>, <<"couch", "3 seater sofa">>,
    <<"settee", "3 seater sofa">>, <<"loveseat", "loveseat">>, <<"chair", "chair">>,
    <<"chairs", "chair">>, <<"arm chair", "armchair">>, <<"dining chairs", "dining chair">>,
    <<"kitchen chair", "dining chair">>, <<"table", "table">>, <<"tables", "table">>,
    <<"kitchen table", "table">>, <<"dinning table", "dining table">>,
    <<"dinning table and chairs", "dining table and chairs">>, <<"bed", "double bed">>,
    <<"single", "single bed">>, <<"double", "double bed">>, <<"king", "king bed">>,
    <<"super king", "super king bed">>, <<"bunk", "bunk bed">>, <<"twin", "single bed">>,
    <<"queen", "king bed">>, <<"toolbox", "tool box">>, <<"toolboxes", "tool box">>,
    <<"tool chest", "tool chest">>, <<"tool kit", "tool box">>, <<"tools", "tools">>,
    <<"surf board", "surfboard">>, <<"surfboards", "surfboard">>, <<"surf", "surfboard">>,
    <<"mower", "lawn mower">>, <<"hedgeclipper", "hedge trimmer">>,
    <<"strimmer", "hedge trimmer">>, <<"garden mower", "lawn mower">>,
    <<"grass cutter", "lawn mower">>, <<"shed storage", "shed">>, <<"garden shed", "shed">>,
    <<"storage shed", "shed">>, <<"workshop", "shed">>, <<"garden building", "shed">>,
    <<"printer machine", "printer">>, <<"photocopier", "printer">>, <<"scanner", "printer">>,
    <<"work desk", "desk">>, <<"office desk", "desk">>, <<"computer desk", "desk">>,
    <<"study desk", "desk">>, <<"writing desk", "desk">>,
    <<"filing drawers", "filing cabinet">>, <<"file cabinet", "filing cabinet">>,
    <<"drawers", "filing cabinet">>, <<"filing", "filing cabinet">>,
    <<"book shelves", "bookcase">>, <<"bookcases", "bookcase">>, <<"shelving", "bookcase">>,
    <<"tv cabinet", "tv stand">>, <<"tv stand unit", "tv stand">>, <<"tv unit", "tv stand">>,
    <<"television stand", "tv stand">>, <<"media unit", "tv stand">>,
    <<"coffee table", "coffee table">>, <<"side table", "coffee table">>,
    <<"end table", "coffee table">>, <<"occasional table", "coffee table">>,
    <<"floor rug", "rug">>, <<"carpet", "rug">>, <<"mat", "rug">>, <<"runner", "rug">>,
    <<"electric fan", "fan">>, <<"radiator", "heater">>, <<"heater unit", "heater">>,
    <<"space heater", "heater">>, <<"portable heater", "heater">>, <<"ward robe", "wardrobe">>,
    <<"closet", "wardrobe">>, <<"built in wardrobe", "wardrobe">>,
    <<"fitted wardrobe", "wardrobe">>, <<"walk in wardrobe", "wardrobe">>,
    <<"side board", "sideboard">>, <<"buffet", "sideboard">>, <<"credenza", "sideboard">>,
    <<"stools", "stool">>, <<"bar stool", "stool">>, <<"kitchen stool", "stool">>,
    <<"bbq", "barbecue">>, <<"barbeque", "barbecue">>, <<"grill", "barbecue">>,
    <<"flower pot", "planter">>, <<"planters", "planter">>, <<"plant pot", "planter">>,
    <<"garden pot", "planter">>, <<"flowerpot", "planter">>, <<"paint cans", "paint tins">>,
    <<"paint bucket", "paint tins">>, <<"paint", "paint tins">>, <<"paint pot", "paint tins">>,
    <<"emulsion", "paint tins">>, <<"step ladder", "step ladder">>,
    <<"stepladder", "step ladder">>, <<"ladder", "ladder">>, <<"extension ladder", "ladder">>,
    <<"folding ladder", "step ladder">>, <<"bike stand", "bicycle stand">>,
    <<"cycle rack", "bicycle stand">>, <<"bicycle rack", "bicycle stand">>,
    <<"bike rack", "bicycle stand">>, <<"gym treadmill", "treadmill">>,
    <<"running machine", "treadmill">>, <<"exercise treadmill", "treadmill">>,
    <<"jogging machine", "treadmill">>, <<"exercise cycle", "exercise bike">>,
    <<"spinning bike", "exercise bike">>, <<"stationary bike", "exercise bike">>,
    <<"indoor bike", "exercise bike">>, <<"hoover", "vacuum cleaner">>, <<"dustbin", "bin">>,
    <<"rubbish bin", "bin">>, <<"wheelie bin", "bin">>, <<"bin bag", "bin">>,
    <<"rubbish", "bin">>, <<"poster", "picture">>, <<"photo", "picture">>,
    <<"photograph", "picture">>, <<"cushion", "pillow">>, <<"throw", "blanket">>,
    <<"bedspread", "blanket">>, <<"duvet cover", "duvet">>, <<"sheet", "bedding">>,
    <<"bed sheets", "bedding">>, <<"tea towel", "towels">>, <<"bath towel", "towels">>,
    <<"hand towel", "towels">>, <<"mug", "cups">>, <<"cup", "cups">>, <<"glass", "glasses">>,
    <<"wine glass", "glasses">>, <<"fork", "cutlery">>, <<"knife", "cutlery">>,
    <<"spoon", "cutlery">>, <<"saucepan", "pots">>, <<"pan", "pans">>,
    <<"frying pan", "pans">>, <<"plate", "plates">>, <<"bowl", "plates">>,
    <<"dish", "plates">>, <<"clock", "clock">>, <<"watch", "clock">>,
    <<"alarm clock", "clock">>, <<"ornament", "ornament">>, <<"decoration", "ornament">>,
    <<"figurine", "ornament">>, <<"vase", "vase">>, <<"flower vase", "vase">>,
    <<"plant pot", "planter">>, <<"plant", "plant">>, <<"house plant", "plant">>,
    <<"indoor plant", "plant">>, <<"art", "art">>, <<"painting", "painting">>,
    <<"drawing", "art">>, <<"print", "art">>
  >>

\* the dict the ALIASES literal evaluates to
ALIASES_written == DictOf(ALIASES_literal)

\* an alias table that keeps every pair written
ALIASES_unfiltered == ALIASES_written

\* ALIASES after the reassignment that keeps the pairs whose value is a catalog key
ALIASES ==
  LET written == ALIASES_written
  IN  [k \in {a \in DOMAIN written : written[a] \in DOMAIN ITEM_CUBIC_FEET} |-> written[k]]

(***************************************************************************)
(* difflib.get_close_matches(word, possibilities, n=1, cutoff=0.8), as     *)
(* called by calculate_size_from_items.  SequenceMatcher has seq1 = the    *)
(* candidate and seq2 = the word; no element is junk (the strings are      *)
(* shorter than 200).  Index ranges are 1-based and inclusive.             *)
(***************************************************************************)

\* the cutoff 0.8 of the call, in tenths
CUTOFF_TENTHS == 8

\* the length of the common run of a[i..ahi] and b[j..bhi] that starts at i and j
RunLength(a, i, ahi, b, j, bhi) ==
  CHOOSE k \in 0..(ahi - i + 1) :
    /\ j + k - 1 <= bhi
    /\ \A d \in 0..(k - 1) : CharAt(a, i + d) = CharAt(b, j + d)
    /\ (i + k > ahi \/ j + k > bhi \/ CharAt(a, i + k) # CharAt(b, j + k))

\* of the runs <<i, j, k>>: k maximal, then i minimal, then j minimal
LongestRun(runs) ==
  CHOOSE m \in runs :
    \A q \in runs :
      \/ q[3] < m[3]
      \/ q[3] = m[3] /\ m[1] < q[1]
      \/ q[3] = m[3] /\ m[1] = q[1] /\ m[2] <= q[2]

\* SequenceMatcher.find_longest_match on two non-empty ranges: the block <<i, j, k>>
find_longest_match(a, alo, ahi, b, blo, bhi) ==
  LongestRun({<<p[1], p[2], RunLength(a, p[1], ahi, b, p[2], bhi)>> :
                p \in (alo..ahi) \X (blo..bhi)})

RECURSIVE MatchedChars(_, _, _, _, _, _)
RECURSIVE MatchedAround(_, _, _, _, _, _, _)
\* the total size of SequenceMatcher.get_matching_blocks() within the two ranges
MatchedChars(a, alo, ahi, b, blo, bhi) ==
  IF alo > ahi \/ blo > bhi THEN 0
  ELSE MatchedAround(a, alo, ahi, b, blo, bhi, find_longest_match(a, alo, ahi, b, blo, bhi))

\* the longest block m, and the blocks to its left and to its right
MatchedAround(a, alo, ahi, b, blo, bhi, m) ==
  IF m[3] = 0 THEN 0
  ELSE m[3] + MatchedChars(a, alo, m[1] - 1, b, blo, m[2] - 1)
            + MatchedChars(a, m[1] + m[3], ahi, b, m[2] + m[3], bhi)

\* SequenceMatcher.ratio() as the fraction <<2 * matches, len(a) + len(b)>>
ratio(a, b) == <<2 * MatchedChars(a, 1, Len(a), b, 1, Len(b)), Len(a) + Len(b)>>

\* SequenceMatcher.quick_ratio(): every element of a that b still has a copy of
quick_ratio(a, b) ==
  LET copies(s, c) == Cardinality({n \in 1..Len(s) : CharAt(s, n) = c})
      matched == {n \in 1..Len(a) :
                    Cardinality({m \in 1..(n - 1) : CharAt(a, m) = CharAt(a, n)})
                      < copies(b, CharAt(a, n))}
  IN  <<2 * Cardinality(matched), Len(a) + Len(b)>>

\* SequenceMatcher.real_quick_ratio()
real_quick_ratio(a, b) ==
  <<2 * (IF Len(a) <= Len(b) THEN Len(a) ELSE Len(b)), Len(a) + Len(b)>>

\* _calculate_ratio(matches, length) >= cutoff; the ratio of two empty strings is 1.0
AtLeastCutoff(r) == IF r[2] = 0 THEN TRUE ELSE 10 * r[1] >= CUTOFF_TENTHS * r[2]

\* the code points of the characters, ascending
AsciiOrder == "\t -0123456789ABCDEFGHIJKLMNOPQRSTUVWXYZabcdefghijklmnopqrstuvwxyz"

\* the first position where x and y differ, 0 when one is a prefix of the other
FirstDifference(x, y) ==
  IF \E i \in 1..Len(x) : i <= Len(y) /\ CharAt(x, i) # CharAt(y, i)
  THEN CHOOSE i \in 1..Len(x) :
         /\ i <= Len(y) /\ CharAt(x, i) # CharAt(y, i)
         /\ \A j \in 1..(i - 1) : CharAt(x, j) = CharAt(y, j)
  ELSE 0

\* x < y at the position d
LessAt(x, y, d) ==
  IF d = 0 THEN Len(x) < Len(y)
  ELSE IndexOf(AsciiOrder, CharAt(x, d)) < IndexOf(AsciiOrder, CharAt(y, d))

\* the Python comparison x < y of two strings
StrLess(x, y) == LessAt(x, y, FirstDifference(x, y))

\* the candidates get_close_matches scores: those that pass the three ratio tests
CloseCandidates(word, possibilities) ==
  {x \in possibilities :
     /\ AtLeastCutoff(real_quick_ratio(x, word))
     /\ AtLeastCutoff(quick_ratio(x, word))
     /\ AtLeastCutoff(ratio(x, word))}

\* the tuple (rx, x) is below the tuple (ry, y), rx and ry fractions
TupleBelow(rx, x, ry, y) ==
  \/ rx[1] * ry[2] < ry[1] * rx[2]
  \/ rx[1] * ry[2] = ry[1] * rx[2] /\ StrLess(x, y)

\* heapq.nlargest(1, result): <<>> or the candidate with the largest (score, x)
Largest(word, close) ==
  IF close = {} THEN <<>>
  ELSE <<CHOOSE x \in close :
           \A y \in close : y = x \/ TupleBelow(ratio(y, word), y, ratio(x, word), x)>>

\* get_close_matches(word, possibilities, n=1, cutoff=0.8): <<>> or the one best match
get_close_matches(word, possibilities) == Largest(word, CloseCandidates(word, possibilities))

(***************************************************************************)
(* calculate_size_from_items                                               *)
(***************************************************************************)

\* a quantity loop that runs to the last numeric word
QuantityIndex_last(item_words) ==
  IF \E i \in DOMAIN item_words : IsDigit(item_words[i])
  THEN CHOOSE i \in DOMAIN item_words :
         IsDigit(item_words[i]) /\ \A j \in (i + 1)..Len(item_words) : ~IsDigit(item_words[j])
  ELSE 0

\* the position of the word the quantity loop breaks on, 0 when the loop runs out
QuantityIndex(item_words) ==
  IF \E i \in DOMAIN item_words : IsDigit(item_words[i])
  THEN CHOOSE i \in DOMAIN item_words :
         IsDigit(item_words[i]) /\ \A j \in 1..(i - 1) : ~IsDigit(item_words[j])
  ELSE 0

\* qty after the quantity loop
ParsedQuantity(item_words) ==
  IF QuantityIndex(item_words) = 0 THEN 1 ELSE ToInt(item_words[QuantityIndex(item_words)])

\* item_name after the quantity loop
ParsedName(item_words) ==
  LET i == QuantityIndex(item_words)
  IN  IF i = 0 THEN Join(item_words)
      ELSE Join(SubSeq(item_words, 1, i - 1) \o SubSeq(item_words, i + 1, Len(item_words)))

\* a fallback that never takes the close match
MatchedName_unmatched(item_name, match) == item_name

\* item_name after the close-match fallback found match
MatchedName(item_name, match) == IF match # <<>> THEN ALIASES[match[1]] ELSE item_name

\* item_name after the alias lookup and the close-match fallback
ResolvedName(item_name) ==
  IF item_name \in DOMAIN ALIASES THEN ALIASES[item_name]
  ELSE MatchedName(item_name, get_close_matches(item_name, DOMAIN ALIASES))

\* the locals of one pass over the words of entry
PassOf(entry, item_words) ==
  [entry |-> entry,
   qty |-> ParsedQuantity(item_words),
   parsed_name |-> ParsedName(item_words),
   item_name |-> ResolvedName(ParsedName(item_words))]

\* the locals of one pass of the loop over items_list
LoopBody(raw) == PassOf(Lower(Strip(raw)), Split(Lower(Strip(raw))))

\* the test `item_name in ITEM_CUBIC_FEET` of a pass
Recognized(pass) == pass.item_name \in DOMAIN ITEM_CUBIC_FEET

\* what one pass adds to total_cuft, in tenths of a cubic foot
AddedVolume(pass) ==
  IF Recognized(pass) THEN ITEM_CUBIC_FEET[pass.item_name] * pass.qty ELSE 0

\* a pass that appends the parsed item name
AppendedUnrecognized_parsed(pass) ==
  IF Recognized(pass) THEN <<>> ELSE <<pass.parsed_name>>

\* what one pass appends to unrecognized_items
AppendedUnrecognized(pass) ==
  IF Recognized(pass) THEN <<>> ELSE <<pass.entry>>

\* the smallest size calculate_size_from_items returns
MIN_SIZE == 20

\* cubic feet per square foot of size
CUFT_PER_SQFT == 6

\* Python's round(n / d) for n >= 0 and d > 0: to the nearest integer, a half to even
PyRound(n, d) ==
  LET q == n \div d
      r == n % d
  IN  IF 2 * r < d THEN q
      ELSE IF 2 * r > d THEN q + 1
      ELSE IF q % 2 = 0 THEN q ELSE q + 1

\* a size without the max(20, ...)
SizeOf_unfloored(total_cuft) == PyRound(total_cuft, 10 * CUFT_PER_SQFT)

\* size = max(20, round(total_cuft / 6)), total_cuft in tenths
SizeOf(total_cuft) ==
  IF PyRound(total_cuft, 10 * CUFT_PER_SQFT) > MIN_SIZE
  THEN PyRound(total_cuft, 10 * CUFT_PER_SQFT)
  ELSE MIN_SIZE

(***************************************************************************)
(* analyze_initial_description: the free text of the customer is cut into  *)
(* parts at the separator words and every part becomes an entry            *)
(* "<item> <quantity>".  The parts are given by their words, which is what *)
(* re.split leaves of a description whose words are one blank apart.       *)
(***************************************************************************)

\* the alternatives of the pattern of re.split, each between whitespace
SeparatorWords == {"and", "or", "with", "plus", "including", ",", "+"}

motor_vehicle_keywords ==
  <<"car", "motorbike", "motorcycle", "vehicle", "van", "truck", "lorry", "trailer",
    "quad", "quad bike", "atv", "all terrain vehicle", "dirt bike", "go kart", "go-kart",
    "jet ski", "jetski", "snowmobile", "snow mobile", "moped", "scooter",
    "petrol", "gasoline", "fuel", "engine", "motor">>

RECURSIVE PartsFrom(_, _, _)
\* the parts from word i on, current holding the words of the part begun; a
\* separator needs whitespace on both sides that no match before it consumed
PartsFrom(words, i, current) ==
  IF i > Len(words) THEN <<Join(current)>>
  ELSE IF words[i] \in SeparatorWords /\ current # <<>> /\ i < Len(words)
  THEN <<Join(current)>> \o PartsFrom(words, i + 1, <<>>)
  ELSE PartsFrom(words, i + 1, Append(current, words[i]))

RECURSIVE Decimal(_)
\* str(int(word)) for a word of decimal digits
Decimal(word) ==
  IF Len(word) > 1 /\ CharAt(word, 1) = "0" THEN Decimal(SubSeq(word, 2, Len(word)))
  ELSE word

\* the entry appended for a part: its quantity moved behind the item, 1 when
\* the part does not start with digits and whitespace
EntryOf(part) ==
  IF Len(Split(part)) >= 2 /\ IsDigit(Split(part)[1])
  THEN Join(Tail(Split(part))) \o " " \o Decimal(Split(part)[1])
  ELSE part \o " 1"

\* analyze_initial_description(description): items and vehicle_mentioned
analyze_initial_description(description) ==
  [items |-> [i \in DOMAIN PartsFrom(Split(Lower(description)), 1, <<>>) |->
                EntryOf(PartsFrom(Split(Lower(description)), 1, <<>>)[i])],
   vehicle_mentioned |->
     \E i \in DOMAIN PartsFrom(Split(Lower(description)), 1, <<>>) :
       \E k \in DOMAIN motor_vehicle_keywords :
         Contains(PartsFrom(Split(Lower(description)), 1, <<>>)[i], motor_vehicle_keywords[k])]

\* the descriptions a customer enters in the items form
WebDescriptions == {"Sofa and car"}

\* analyze_initial_description of every description of the form, computed once
Described == [d \in WebDescriptions |-> analyze_initial_description(d)]

\* the entries process_items passes to calculate_size_from_items
DescribedEntries ==
  UNION {{Described[d].items[i] : i \in DOMAIN Described[d].items} : d \in WebDescriptions}

(***************************************************************************)
(* The inputs of the estimator.                                            *)
(***************************************************************************)

\* the longest items_list
MaxItems == 2

\* the item descriptions a caller passes
EntryPool ==
  {"sofa", "car", "atv", "kitchen table", "small box", "3 seater sofa",
   "2 boxes", "boxes 3", "0 sofa", "2 3 seater", "washing machne",
   "plant pots", "a seater", "kitchen tabl",
   "  Sofa BED ", "Grand  Piano 2", "piano", "10", "", "bike rack"}

\* every items_list of at most MaxItems entries
ItemLists == UNION {[1..n -> EntryPool] : n \in 0..MaxItems}

\* LoopBody of every description of the pool, computed once
PoolPasses == [raw \in EntryPool \cup DescribedEntries |-> LoopBody(raw)]

\* the accumulators after one more pass
Accumulated(acc, pass) ==
  [total_cuft |-> acc.total_cuft + AddedVolume(pass),
   unrecognized_items |-> acc.unrecognized_items \o AppendedUnrecognized(pass),
   passes |-> Append(acc.passes, pass)]

RECURSIVE ItemLoop(_, _)
\* the loop over items_list from the accumulators acc
ItemLoop(items, acc) ==
  IF Len(items) = 0 THEN acc
  ELSE ItemLoop(Tail(items), Accumulated(acc, PoolPasses[Head(items)]))

\* the returned pair, with the loop's locals
Returned(done) ==
  [size |-> SizeOf(done.total_cuft),
   unrecognized_items |-> done.unrecognized_items,
   total_cuft |-> done.total_cuft,
   passes |-> done.passes]

\* calculate_size_from_items(items_list)
calculate_size_from_items(items) ==
  Returned(ItemLoop(items, [total_cuft |-> 0, unrecognized_items |-> <<>>, passes |-> <<>>]))

(***************************************************************************)
(* Size resolution: the "find suitable size" step of display_results and   *)
(* of show_results, and the closest-size selection of get_known_size.      *)
(* A size that may be None is <<>> for None and <<n>> for the size n.      *)
(***************************************************************************)

\* a loop that breaks on the first element above size
FirstAtLeast_above(available_sizes, size) ==
  IF \E i \in DOMAIN available_sizes : available_sizes[i] > size
  THEN <<available_sizes[CHOOSE i \in DOMAIN available_sizes :
                           /\ available_sizes[i] > size
                           /\ \A j \in 1..(i - 1) : ~(available_sizes[j] > size)]>>
  ELSE <<>>

\* the first element of available_sizes that is >= size, None when the loop runs out
FirstAtLeast(available_sizes, size) ==
  IF \E i \in DOMAIN available_sizes : available_sizes[i] >= size
  THEN <<available_sizes[CHOOSE i \in DOMAIN available_sizes :
                           /\ available_sizes[i] >= size
                           /\ \A j \in 1..(i - 1) : ~(available_sizes[j] >= size)]>>
  ELSE <<>>

\* the test `size in available_sizes`
InList(available_sizes, size) == \E i \in DOMAIN available_sizes : available_sizes[i] = size

\* a display_results without the fallback of the else branch
display_results_suitable_size_exact(size, available_sizes, has_items) ==
  IF has_items THEN FirstAtLeast(available_sizes, size)
  ELSE IF InList(available_sizes, size) THEN <<size>>
  ELSE <<>>

\* suitable_size of display_results; has_items is the truth value of items
display_results_suitable_size(size, available_sizes, has_items) ==
  IF has_items THEN FirstAtLeast(available_sizes, size)
  ELSE IF InList(available_sizes, size) THEN <<size>>
  ELSE FirstAtLeast(available_sizes, size)

\* a show_results without the fallback of the else branch
show_results_suitable_size_exact(size, available_sizes, has_items) ==
  IF has_items THEN FirstAtLeast(available_sizes, size)
  ELSE IF InList(available_sizes, size) THEN <<size>>
  ELSE <<>>

\* suitable_size of show_results; has_items is the truth value of items
show_results_suitable_size(size, available_sizes, has_items) ==
  IF has_items THEN FirstAtLeast(available_sizes, size)
  ELSE IF InList(available_sizes, size) THEN <<size>>
  ELSE FirstAtLeast(available_sizes, size)

\* abs(x - requested_size)
AbsDiff(x, requested_size) ==
  IF x >= requested_size THEN x - requested_size ELSE requested_size - x

\* min(available_sizes, key=lambda x: abs(x - requested_size)) on a non-empty list:
\* a min() that keeps the last of the closest elements
closest_size_last(available_sizes, requested_size) ==
  available_sizes[CHOOSE i \in DOMAIN available_sizes :
    /\ \A j \in DOMAIN available_sizes :
         AbsDiff(available_sizes[i], requested_size) <= AbsDiff(available_sizes[j], requested_size)
    /\ \A j \in (i + 1)..Len(available_sizes) :
         AbsDiff(available_sizes[j], requested_size) > AbsDiff(available_sizes[i], requested_size)]

\* the first element whose key no other element is below
closest_size(available_sizes, requested_size) ==
  available_sizes[CHOOSE i \in DOMAIN available_sizes :
    /\ \A j \in DOMAIN available_sizes :
         AbsDiff(available_sizes[i], requested_size) <= AbsDiff(available_sizes[j], requested_size)
    /\ \A j \in 1..(i - 1) :
         AbsDiff(available_sizes[j], requested_size) > AbsDiff(available_sizes[i], requested_size)]

RECURSIVE Sorted_descending(_)
\* a list of s that is not ascending
Sorted_descending(s) ==
  IF s = {} THEN <<>>
  ELSE LET most == CHOOSE x \in s : \A y \in s : x >= y
       IN  <<most>> \o Sorted_descending(s \ {most})

RECURSIVE Sorted(_)
\* sorted(list(s)) for a set s of integers
Sorted(s) ==
  IF s = {} THEN <<>>
  ELSE LET least == CHOOSE x \in s : \A y \in s : x <= y
       IN  <<least>> \o Sorted(s \ {least})

(***************************************************************************)
(* The live inventory: get_available_units, get_pricing_from_api and       *)
(* get_available_sizes.  A unit is the JSON object of the inventory        *)
(* endpoint; a key the object lacks has the default of the unit.get call.  *)
(* rack_rate and the cached prices are in pence.                           *)
(***************************************************************************)

FACILITY_CODES == ("container" :> "OBRIC") @@ ("internal" :> "OBRIE")

VALID_SITES == <<"wallsend", "boldon", "birtley", "sunderland", "chester-le-street">>

SITE_PREFIXES ==
  ("birtley" :> <<"BIR-", "B2-", "B3-">>) @@
  ("boldon" :> <<"BOL-", "BOL2-", "BOL3-">>) @@
  ("wallsend" :> <<"WAL-", "W-">>) @@
  ("sunderland" :> <<"SUN-">>) @@
  ("chester-le-street" :> <<"CLS-">>)

\* a JSON null, on which .lower() raises
JsonNull == "<null>"

\* d with d[k] = v
DictSet(d, k, v) == [x \in DOMAIN d \cup {k} |-> IF x = k THEN v ELSE d[x]]

\* the "Filter by site" step of both loops
site_matches(unit, site, storage_type) ==
  IF storage_type = "container"
  THEN /\ site \in DOMAIN SITE_PREFIXES
       /\ \E i \in DOMAIN SITE_PREFIXES[site] :
            StartsWith(unit.unit_number, SITE_PREFIXES[site][i])
  ELSE TRUE

\* a weekly price cut off after the pence
weekly_price_truncated(monthly_price) == (monthly_price * 12) \div 52

\* weekly_price = round((monthly_price * 12) / 52, 2), both in pence
weekly_price(monthly_price) == PyRound(monthly_price * 12, 52)

\* size_key of get_pricing_from_api as <<size_key>>, <<>> where the loop continues
pricing_size_key(unit, storage_type) ==
  LET unit_area == unit.unit_area
      unit_type == Lower(unit.unit_type_code)
  IN  IF storage_type = "container"
      THEN IF unit_area = 40 \/ Contains(unit_type, "small") \/ Contains(unit_type, "4x10")
           THEN <<40>>
           ELSE IF unit_area = 80 \/ Contains(unit_type, "med") \/ Contains(unit_type, "10x8")
           THEN <<80>>
           ELSE IF unit_area = 160 \/ Contains(unit_type, "large")
                   \/ Contains(unit_type, "lge") \/ Contains(unit_type, "20x8")
           THEN <<160>>
           ELSE IF unit_area = 320 \/ Contains(unit_type, "xl") \/ Contains(unit_type, "40x8")
           THEN <<320>>
           ELSE <<>>
      ELSE IF unit_area > 0 THEN <<unit_area>> ELSE <<>>

\* a loop that keeps the price seen first for each size
cheapest_step_first(size_pricing, unit, key) ==
  IF key = <<>> THEN size_pricing
  ELSE IF key[1] \notin DOMAIN size_pricing
  THEN DictSet(size_pricing, key[1],
               [weekly |-> weekly_price(unit.rack_rate), monthly |-> unit.rack_rate])
  ELSE size_pricing

\* "Store the cheapest price for each size" for the size_key key
cheapest_step(size_pricing, unit, key) ==
  IF key = <<>> THEN size_pricing
  ELSE IF key[1] \notin DOMAIN size_pricing \/ unit.rack_rate < size_pricing[key[1]].monthly
  THEN DictSet(size_pricing, key[1],
               [weekly |-> weekly_price(unit.rack_rate), monthly |-> unit.rack_rate])
  ELSE size_pricing

\* size_pricing after the loop body of get_pricing_from_api ran on one unit
pricing_step(size_pricing, unit, site, storage_type) ==
  IF site_matches(unit, site, storage_type) /\ unit.rack_rate > 0
  THEN cheapest_step(size_pricing, unit, pricing_size_key(unit, storage_type))
  ELSE size_pricing

RECURSIVE pricing_loop(_, _, _, _)
\* size_pricing after the loop of get_pricing_from_api over units
pricing_loop(units, site, storage_type, size_pricing) ==
  IF Len(units) = 0 THEN size_pricing
  ELSE pricing_loop(Tail(units), site, storage_type,
                    pricing_step(size_pricing, Head(units), site, storage_type))

\* a loop over units raises: unit_type_code of some unit is null
LoopRaises(units) == \E i \in DOMAIN units : units[i].unit_type_code = JsonNull

\* SITE_PRICING after "Initialize pricing structure for this site/storage type"
\* an initialisation that binds the site to a new dict every time
InitializedPricing_reset(pricing, site, storage_type) ==
  DictSet(pricing, site, DictSet(<<>>, storage_type, <<>>))

InitializedPricing(pricing, site, storage_type) ==
  IF site \notin DOMAIN pricing
  THEN DictSet(pricing, site, DictSet(<<>>, storage_type, <<>>))
  ELSE IF storage_type \notin DOMAIN pricing[site]
  THEN DictSet(pricing, site, DictSet(pricing[site], storage_type, <<>>))
  ELSE pricing

(***************************************************************************)
(* The inputs of size resolution and of the inventory calls.               *)
(***************************************************************************)

\* the sizes a caller asks for
RequestPool == {-10, 0, 20, 30, 40, 45, 60, 80, 100, 160, 200, 320, 400}

\* the sizes get_available_sizes may report
SizePool == {25, 40, 50, 80, 160, 320}

\* the longest available_sizes list
MaxAvailable == 3

\* the lists get_available_sizes can return: sorted(list(set))
AvailableLists == {Sorted(s) : s \in {t \in SUBSET SizePool : Cardinality(t) <= MaxAvailable}}

\* a unit object of the inventory endpoint
Unit(number, area, type, status, rate) ==
  [unit_number |-> number, unit_area |-> area, unit_type_code |-> type,
   unit_status |-> status, rack_rate |-> rate]

\* the answers of the inventory endpoint: the request raises, a status other than
\* 200, or 200 with a list of units
Inventories ==
  {<<>>,
   <<Unit("BOL-3", 80, "small", "VACANT", 8667),
     Unit("BOL-1", 40, "Small Container", "VACANT", 8667),
     Unit("BOL2-7", 40, "4X10", "OCCUPIED", 5000),
     Unit("BOL-4", 320, "xl", "VACANT", 0),
     Unit("SUN-5", 0, "4x8 unit", "VACANT", 9000),
     Unit("WAL-2", 160, "20x8", "VACANT", 52000),
     Unit("WAL-9", 100, "Medium", "VACANT", 12000)>>,
   <<Unit("R12", 75, "room", "VACANT", 10000),
     Unit("R13", 75, "room", "OCCUPIED", 9500),
     Unit("R14", 0, "", "VACANT", 4000)>>,
   <<Unit("BOL-1", 40, "Small Container", "VACANT", 8667),
     Unit("BOL-6", 40, JsonNull, "VACANT", 100)>>,
   <<Unit("BOL-8", 80, "Small 10x8", "VACANT", 9900)>>}

Responses ==
  {[kind |-> "raise", status_code |-> 0, units |-> <<>>],
   [kind |-> "answer", status_code |-> 500, units |-> <<>>]}
  \cup {[kind |-> "answer", status_code |-> 200, units |-> u] : u \in Inventories}

\* the sites and storage types the callers of one behaviour ask about
CallSites == {"boldon", "wallsend"}

StorageTypes == {"container", "internal"}

\* the facility codes get_available_units is called with
FacilityCodes == {FACILITY_CODES[t] : t \in StorageTypes}

\* the number of inventory calls of one behaviour
MaxCalls == 2

(***************************************************************************)
(* The inventory calls.                                                    *)
(***************************************************************************)

\* SITE_PRICING[site][storage_type], {} where the cache has none
CachedFor(pricing, site, storage_type) ==
  IF site \in DOMAIN pricing /\ storage_type \in DOMAIN pricing[site]
  THEN pricing[site][storage_type]
  ELSE <<>>

\* an assignment that updates the cached map instead of replacing it
StoredPricing_updated(initialized, site, storage_type, size_pricing) ==
  [returned |-> IF Cardinality(DOMAIN size_pricing) > 0 THEN "True" ELSE "False",
   pricing |-> DictSet(initialized, site,
                       DictSet(initialized[site], storage_type,
                               size_pricing @@ initialized[site][storage_type])),
   requests |-> 1]

\* the assignment SITE_PRICING[site][storage_type] = size_pricing and the return
StoredPricing(initialized, site, storage_type, size_pricing) ==
  [returned |-> IF Cardinality(DOMAIN size_pricing) > 0 THEN "True" ELSE "False",
   pricing |-> DictSet(initialized, site, DictSet(initialized[site], storage_type, size_pricing)),
   requests |-> 1]

\* get_pricing_from_api(site, storage_type) with the credential token, the cache
\* pricing and the answer response of the endpoint: the returned value ("True",
\* "False", or "None" where the function ends without a return), the cache left
\* behind, and the number of HTTP requests made
get_pricing_from_api(site, storage_type, token, pricing, response) ==
  IF ~token THEN [returned |-> "False", pricing |-> pricing, requests |-> 0]
  ELSE IF storage_type \notin DOMAIN FACILITY_CODES
  THEN [returned |-> "False", pricing |-> pricing, requests |-> 0]
  ELSE IF response.kind = "raise"
  THEN [returned |-> "False", pricing |-> pricing, requests |-> 1]
  ELSE IF response.status_code # 200
  THEN [returned |-> "None", pricing |-> pricing, requests |-> 1]
  ELSE IF LoopRaises(response.units)
  THEN [returned |-> "False", pricing |-> InitializedPricing(pricing, site, storage_type),
        requests |-> 1]
  ELSE StoredPricing(InitializedPricing(pricing, site, storage_type), site, storage_type,
                     pricing_loop(response.units, site, storage_type, <<>>))

\* a filter that lets every unit through
Vacant_unfiltered(units) == units

\* the VACANT units of an answer
Vacant(units) == SelectSeq(units, LAMBDA unit : unit.unit_status = "VACANT")

\* get_available_units(facility_code): the returned list and the requests made
\* a failed request is made once more
get_available_units_retried(facility_code, token, response) ==
  IF ~token THEN [returned |-> <<>>, requests |-> 0]
  ELSE IF response.kind = "raise" THEN [returned |-> <<>>, requests |-> 2]
  ELSE IF response.status_code = 200
  THEN [returned |-> Vacant(response.units), requests |-> 1]
  ELSE [returned |-> <<>>, requests |-> 2]

get_available_units(facility_code, token, response) ==
  IF ~token THEN [returned |-> <<>>, requests |-> 0]
  ELSE IF response.kind = "raise" THEN [returned |-> <<>>, requests |-> 1]
  ELSE IF response.status_code = 200
  THEN [returned |-> Vacant(response.units), requests |-> 1]
  ELSE [returned |-> <<>>, requests |-> 1]

\* the sizes the loop body of get_available_sizes adds for one unit
availability_size_key(unit, storage_type) ==
  LET unit_area == unit.unit_area
      unit_type == Lower(unit.unit_type_code)
  IN  IF storage_type = "container"
      THEN IF unit_area = 40 THEN <<40>>
           ELSE IF unit_area = 80 THEN <<80>>
           ELSE IF unit_area = 160 THEN <<160>>
           ELSE IF unit_area = 320 THEN <<320>>
           ELSE IF Contains(unit_type, "small") \/ Contains(unit_type, "4x10")
                   \/ Contains(unit_type, "4x8")
           THEN <<40>>
           ELSE IF Contains(unit_type, "med") \/ Contains(unit_type, "10x8")
                   \/ Contains(unit_type, "medium")
           THEN <<80>>
           ELSE IF Contains(unit_type, "large") \/ Contains(unit_type, "lge")
                   \/ Contains(unit_type, "20x8")
           THEN <<160>>
           ELSE IF Contains(unit_type, "xl") \/ Contains(unit_type, "40x8")
                   \/ Contains(unit_type, "extra")
           THEN <<320>>
           ELSE <<>>
      ELSE IF unit_area > 0 THEN <<unit_area>> ELSE <<>>

\* the set available_sizes after the loop of get_available_sizes
availability_loop(available_units, site, storage_type) ==
  {availability_size_key(available_units[i], storage_type)[1] :
     i \in {n \in DOMAIN available_units :
              /\ site_matches(available_units[n], site, storage_type)
              /\ availability_size_key(available_units[n], storage_type) # <<>>}}

\* what get_available_sizes hands back once both requests are answered: an
\* exception or the sorted list, with the cache and the requests made
AvailableSizesResult(site, storage_type, priced, fetched) ==
  [raised |-> LoopRaises(fetched.returned),
   sizes |-> IF LoopRaises(fetched.returned) THEN <<>>
             ELSE Sorted(availability_loop(fetched.returned, site, storage_type)),
   api_success |-> priced.returned,
   pricing |-> priced.pricing,
   requests |-> priced.requests + fetched.requests]

\* get_available_sizes(site, storage_type): the pricing request is answered by
\* first and the units request by second
get_available_sizes(site, storage_type, token, pricing, first, second) ==
  IF storage_type \notin DOMAIN FACILITY_CODES
  THEN [raised |-> TRUE, sizes |-> <<>>, api_success |-> "False",
        pricing |-> pricing, requests |-> 0]
  ELSE AvailableSizesResult(site, storage_type,
         get_pricing_from_api(site, storage_type, token, pricing, first),
         get_available_units(FACILITY_CODES[storage_type], token, second))

(***************************************************************************)
(* The callers that show a price: the vehicle-to-container path of main,   *)
(* display_results and show_results.  Each hands back what the customer    *)
(* is shown and the cache it leaves.                                       *)
(***************************************************************************)

\* what a caller hands back
Outcome(message, price, size, suitable, available, pricing) ==
  [shown |-> message, pricing_shown |-> price, requested_size |-> size,
   suitable_size |-> suitable, available_sizes |-> available, pricing |-> pricing,
   requests |-> 0]

\* the outcome of a caller that made n HTTP requests through the calls before
Counted(outcome, n) == [outcome EXCEPT !.requests = @ + n]

\* the lookup of the price of suitable_size in SITE_PRICING[site][storage_type]
PriceLookup(pricing, site, storage_type, suitable_size) ==
  IF suitable_size \in DOMAIN CachedFor(pricing, site, storage_type)
  THEN "price"
  ELSE "pricing not available"

\* the cache after the second fetch display_results makes for a missing price
RefetchedPricing(site, storage_type, token, pricing, suitable_size, again) ==
  IF suitable_size \notin DOMAIN CachedFor(pricing, site, storage_type)
  THEN get_pricing_from_api(site, storage_type, token, pricing, again).pricing
  ELSE pricing

\* display_results: the HTTP requests of that second fetch
RefetchRequests(site, storage_type, token, pricing, suitable_size, again) ==
  IF suitable_size \notin DOMAIN CachedFor(pricing, site, storage_type)
  THEN get_pricing_from_api(site, storage_type, token, pricing, again).requests
  ELSE 0

\* display_results from the suitable size on
display_results_priced(site, storage_type, size, available, suitable, pricing) ==
  Outcome("suitable size", PriceLookup(pricing, site, storage_type, suitable[1]),
          size, suitable, available, pricing)

\* display_results once get_available_sizes has answered
display_results_listed(site, storage_type, size, has_items, token, listed, again) ==
  IF listed.raised
  THEN Outcome("terminated", "nothing", size, <<>>, <<>>, listed.pricing)
  ELSE IF listed.sizes = <<>>
  THEN Outcome("no units available", "nothing", size, <<>>, <<>>, listed.pricing)
  ELSE IF display_results_suitable_size(size, listed.sizes, has_items) = <<>>
  THEN Outcome("no suitable size", "nothing", size, <<>>, listed.sizes, listed.pricing)
  ELSE Counted(
         display_results_priced(site, storage_type, size, listed.sizes,
           display_results_suitable_size(size, listed.sizes, has_items),
           RefetchedPricing(site, storage_type, token, listed.pricing,
             display_results_suitable_size(size, listed.sizes, has_items)[1], again)),
         RefetchRequests(site, storage_type, token, listed.pricing,
           display_results_suitable_size(size, listed.sizes, has_items)[1], again))

\* display_results(site, storage_type, size, items, ...): the requests of
\* get_available_sizes are answered by first and second, the one of the second
\* fetch by again
display_results(site, storage_type, size, has_items, token, pricing, first, second, again) ==
  Counted(display_results_listed(site, storage_type, size, has_items, token,
            get_available_sizes(site, storage_type, token, pricing, first, second), again),
          get_available_sizes(site, storage_type, token, pricing, first, second).requests)

\* show_results once get_available_sizes has answered; an exception is caught
\* and flashed, a missing price is pricing = None in the page rendered
show_results_listed(site, storage_type, size, has_items, listed) ==
  IF listed.raised
  THEN Outcome("error flashed", "nothing", size, <<>>, <<>>, listed.pricing)
  ELSE IF listed.sizes = <<>>
  THEN Outcome("no units available", "nothing", size, <<>>, <<>>, listed.pricing)
  ELSE IF show_results_suitable_size(size, listed.sizes, has_items) = <<>>
  THEN Outcome("no suitable size", "nothing", size, <<>>, listed.sizes, listed.pricing)
  ELSE Outcome("suitable size",
         PriceLookup(listed.pricing, site, storage_type,
                     show_results_suitable_size(size, listed.sizes, has_items)[1]),
         size, show_results_suitable_size(size, listed.sizes, has_items),
         listed.sizes, listed.pricing)

\* show_results() for the site, storage type and size of the session
show_results(site, storage_type, size, has_items, token, pricing, first, second) ==
  Counted(show_results_listed(site, storage_type, size, has_items,
            get_available_sizes(site, storage_type, token, pricing, first, second)),
          get_available_sizes(site, storage_type, token, pricing, first, second).requests)

\* get_facility_code(site, storage_type)
get_facility_code(site, storage_type) ==
  IF site = "sunderland" /\ storage_type = "internal" THEN "OBRIE" ELSE "OBRIC"

\* main: the units of the answer whose number starts with a prefix of check_site
site_specific_units(available_units, check_site) ==
  SelectSeq(available_units,
            LAMBDA unit : /\ check_site \in DOMAIN SITE_PREFIXES
                          /\ \E i \in DOMAIN SITE_PREFIXES[check_site] :
                               StartsWith(unit.unit_number, SITE_PREFIXES[check_site][i]))

\* main: the size a unit of the selected site adds to available_sizes_set
main_size_key(unit) ==
  LET unit_area == unit.unit_area
      unit_type == Lower(unit.unit_type_code)
  IN  IF unit_area = 40 \/ Contains(unit_type, "small") \/ Contains(unit_type, "4x10")
      THEN <<40>>
      ELSE IF unit_area = 80 \/ Contains(unit_type, "med") \/ Contains(unit_type, "10x8")
      THEN <<80>>
      ELSE IF unit_area = 160 \/ Contains(unit_type, "large")
              \/ Contains(unit_type, "lge") \/ Contains(unit_type, "20x8")
      THEN <<160>>
      ELSE IF unit_area = 320 \/ Contains(unit_type, "xl") \/ Contains(unit_type, "40x8")
      THEN <<320>>
      ELSE <<>>

\* main: size_options = sorted(available_sizes_set) of the selected site
size_options(units) ==
  Sorted({main_size_key(units[i])[1] :
            i \in {n \in DOMAIN units : main_size_key(units[n]) # <<>>}})

\* main: the prints of the price of the selected size, which index
\* SITE_PRICING[site]['container'][selected_size]; a KeyError is not caught
selected_price(pricing, site, selected_size) ==
  IF selected_size \in DOMAIN pricing[site]["container"] THEN "price" ELSE "KeyError"

\* main: the customer enters size_choice and confirms that the vehicle fits
vehicle_selected(site, token, pricing, options, size_choice, first, second, again) ==
  IF size_choice > Len(options)
  THEN Outcome("invalid size selection", "nothing", 0, <<>>, options, pricing)
  ELSE IF selected_price(pricing, site, options[size_choice]) = "price"
  THEN display_results(site, "container", options[size_choice], FALSE, token, pricing,
                       first, second, again)
  ELSE Outcome("terminated", selected_price(pricing, site, options[size_choice]),
               options[size_choice], <<options[size_choice]>>, options, pricing)

\* main: the site is offered when its pricing call returned a true value
vehicle_offered(site, token, priced, units, size_choice, first, second, again) ==
  IF /\ priced.returned = "True"
     /\ site \in DOMAIN priced.pricing
     /\ "container" \in DOMAIN priced.pricing[site]
  THEN vehicle_selected(site, token, priced.pricing, size_options(units), size_choice,
                        first, second, again)
  ELSE Outcome("no container units", "nothing", 0, <<>>, <<>>, priced.pricing)

\* main: the units of check_site, priced when there are any
vehicle_checked(site, token, pricing, units, priced_by, size_choice, first, second, again) ==
  IF units = <<>>
  THEN Outcome("no container units", "nothing", 0, <<>>, <<>>, pricing)
  ELSE Counted(vehicle_offered(site, token,
                 get_pricing_from_api(site, "container", token, pricing, priced_by),
                 units, size_choice, first, second, again),
               get_pricing_from_api(site, "container", token, pricing, priced_by).requests)

\* main, a vehicle among the items of an internal enquiry: the container units
\* of the site the customer then selects, its sizes, the size chosen and its price
vehicle_to_container(site, token, pricing, units_by, priced_by, size_choice, first, second, again) ==
  Counted(
    vehicle_checked(site, token, pricing,
      site_specific_units(
        get_available_units(get_facility_code(site, "container"), token, units_by).returned,
        site),
      priced_by, size_choice, first, second, again),
    get_available_units(get_facility_code(site, "container"), token, units_by).requests)

\* the sites, sizes and answers of the callers that show a price
OfferSites == {"boldon", "wallsend"}

OfferSizes == {40, 75, 320}

OfferResponses ==
  {r \in Responses :
     r.kind = "raise" \/ (r.status_code = 200 /\ Len(r.units) \in {3, 7})}

(***************************************************************************)
(* The prohibited-item screen.                                             *)
(***************************************************************************)

PROHIBITED_ITEMS_CONTAINER ==
  << "vapes", "vape", "e-cigarette", "e-cig", "vapour", "vapor",
     "fuel", "petrol", "diesel", "gas", "gasoline", "propane", "butane",
     "flammable", "explosives", "fireworks", "batteries", "lithium",
     "aerosol", "spray", "paint thinner", "solvent", "lighter fluid",
     "white spirit", "turpentine", "acetone", "methanol", "ethanol",
     "kerosene", "paraffin", "lamp oil", "camping fuel", "stove fuel" >>

PROHIBITED_ITEMS_INTERNAL ==
  << "motorbike", "motorcycle", "car", "vehicle", "van", "truck", "lorry",
     "scooter", "moped", "quad bike", "atv", "golf cart", "dirt bike",
     "go kart", "go-kart", "jet ski", "jetski", "snowmobile", "snow mobile",
     "food", "perishable", "fresh food", "frozen food", "meat", "fish",
     "dairy", "milk", "cheese", "yogurt", "fruit", "vegetables", "bread",
     "canned food", "tinned food", "pantry items", "groceries",
     "plant", "plants", "house plant", "indoor plant", "garden plant",
     "flower", "flowers", "tree", "bush", "shrub", "cactus", "succulent",
     "herb", "herbs", "seedling", "sapling", "potted plant" >>

PROHIBITED_ITEMS_GENERAL ==
  << "tyres", "tires", "animals", "wildlife", "cigarettes", "illegal",
     "stolen", "drugs", "weapons", "ammunition", "chemicals", "alcohol",
     "wine", "beer", "spirits", "medication", "medicine", "prescription" >>

\* a screen that leaves the general list out
prohibited_list_without_general(storage_type) ==
  IF storage_type = "container"
  THEN PROHIBITED_ITEMS_CONTAINER
  ELSE PROHIBITED_ITEMS_INTERNAL

\* the list check_prohibited_items screens against
prohibited_list(storage_type) ==
  IF storage_type = "container"
  THEN PROHIBITED_ITEMS_CONTAINER \o PROHIBITED_ITEMS_GENERAL
  ELSE PROHIBITED_ITEMS_INTERNAL \o PROHIBITED_ITEMS_GENERAL

\* the inner loop: the index of the first entry found in item_lower, 0 when
\* the loop ends without a break
RECURSIVE first_prohibited(_, _, _)
first_prohibited(item_lower, list, i) ==
  IF i > Len(list) THEN 0
  ELSE IF Contains(item_lower, list[i]) THEN i
  ELSE first_prohibited(item_lower, list, i + 1)

\* the outer loop from item i on, prohibited_found being built
RECURSIVE prohibited_loop(_, _, _, _)
prohibited_loop(items, list, i, prohibited_found) ==
  IF i > Len(items) THEN prohibited_found
  ELSE prohibited_loop(items, list, i + 1,
         IF first_prohibited(Lower(items[i]), list, 1) # 0
         THEN Append(prohibited_found, items[i])
         ELSE prohibited_found)

check_prohibited_items(items, storage_type) ==
  prohibited_loop(items, prohibited_list(storage_type), 1, <<>>)

\* the descriptions a caller screens
DescriptionPool ==
  { "fuel can", "Fuel Can", "Red Wine", "house plant", "carpet",
    "sofa", "Gas Bottle", "beer", "dining table" }

DescriptionLists ==
  UNION { [1..n -> DescriptionPool] : n \in 0..MaxItems }


VARIABLES
  op,                  \* the operation that ran last, "start" before any
  items_list,          \* calculate_size_from_items: the argument
  size,                \*   the returned size
  unrecognized_items,  \*   the returned unrecognized_items
  total_cuft,          \*   total_cuft after the loop, in tenths
  passes,              \*   the locals of every pass of the loop
  requested_size,      \* size resolution: the size asked for
  available_sizes,     \*   the list from get_available_sizes
  has_items,           \*   the truth value of items
  suitable_size,       \*   suitable_size / closest_size, None when there is none
  shown,               \*   what the caller reports
  TOKEN,               \* the credential STORMAN_API_TOKEN is set
  SITE_PRICING,        \* the module-level pricing cache
  cached_before,       \*   SITE_PRICING[site][storage_type] when the last call began
  site,                \* inventory call: the site argument
  storage_type,        \*   the storage_type argument
  responses,           \*   the answers of the endpoint to the call's requests
  returned,            \*   what the call returned: "True", "False", "None", "list", "raised"
  returned_sizes,      \*   the list get_available_sizes returned
  returned_units,      \*   the list get_available_units returned
  facility_code,       \*   the facility_code argument of get_available_units
  requests,            \*   the number of HTTP requests the call made
  calls,               \* the number of inventory calls so far
  checked_items,       \* check_prohibited_items: the items argument
  checked_type,        \*   the storage_type argument
  prohibited_found,    \*   the returned list
  estimates,           \* the estimates made so far, each with the cache before and after it
  pricing_shown,       \* what a caller showed for the price: "price", "pricing not available",
                       \*   "KeyError", "nothing"
  pc,                  \* concurrent requests: the line each thread is at
  request,             \*   the site, storage type and upstream answer of each thread
  site_dicts,          \*   the dict objects SITE_PRICING[site] has been bound to, by identity
  site_refs,           \*   SITE_PRICING: for each site the identity of its dict
  held,                \*   the dict each thread has loaded for its next store or test
  fetch_returned,      \*   what get_pricing_from_api returned to each thread
  observed,            \*   what each thread read under its own site and storage type
  session              \* web flow: the keys and values of the Flask session

estVars == <<items_list, size, unrecognized_items, total_cuft, passes>>

resVars == <<requested_size, available_sizes, has_items, suitable_size, shown>>

invVars ==
  <<TOKEN, SITE_PRICING, cached_before, site, storage_type, responses, returned, returned_sizes,
    returned_units, facility_code, requests, calls>>

proVars == <<checked_items, checked_type, prohibited_found>>

raceVars == <<pc, request, site_dicts, site_refs, held, fetch_returned, observed>>

webVars == <<session>>

vars == <<op, estVars, resVars, invVars, proVars, estimates, pricing_shown, raceVars, webVars>>

\* no estimate was asked for
EstimateIdle ==
  /\ items_list = <<>>
  /\ size = 0
  /\ unrecognized_items = <<>>
  /\ total_cuft = 0
  /\ passes = <<>>

\* no size was resolved
ResolveIdle ==
  /\ requested_size = 0
  /\ available_sizes = <<>>
  /\ has_items = FALSE
  /\ suitable_size = <<>>
  /\ shown = "nothing"

\* no inventory call was made: SITE_PRICING = {} as the module is loaded
InventoryIdle ==
  /\ SITE_PRICING = <<>>
  /\ cached_before = <<>>
  /\ site = ""
  /\ storage_type = ""
  /\ responses = <<>>
  /\ returned = "None"
  /\ returned_sizes = <<>>
  /\ returned_units = <<>>
  /\ facility_code = ""
  /\ requests = 0
  /\ calls = 0

\* no concurrent request runs
RaceIdle ==
  /\ pc = <<>>
  /\ request = <<>>
  /\ site_dicts = <<>>
  /\ site_refs = <<>>
  /\ held = <<>>
  /\ fetch_returned = <<>>
  /\ observed = <<>>

\* no web request was made: the session is empty
WebIdle == session = <<>>

\* no list of items was screened
ProhibitedIdle ==
  /\ checked_items = <<>>
  /\ checked_type = ""
  /\ prohibited_found = <<>>

(***************************************************************************)
(* The estimator: one call of calculate_size_from_items.                   *)
(***************************************************************************)

InitEstimate == op = "start" /\ EstimateIdle /\ ResolveIdle /\ InventoryIdle /\ ProhibitedIdle /\ estimates = <<>> /\ pricing_shown = "nothing" /\ RaceIdle /\ WebIdle /\ TOKEN = TRUE

\* a caller runs calculate_size_from_items(items), once in a behaviour
Estimate ==
  /\ op = "start"
  /\ \E items \in ItemLists :
    \E r \in {calculate_size_from_items(items)} :
      /\ op' = "calculate_size_from_items"
      /\ items_list' = items
      /\ size' = r.size
      /\ unrecognized_items' = r.unrecognized_items
      /\ total_cuft' = r.total_cuft
      /\ passes' = r.passes
      /\ UNCHANGED <<resVars, invVars, proVars, estimates, pricing_shown, raceVars, webVars>>

NextEstimate == Estimate

SpecEstimate == InitEstimate /\ [][NextEstimate]_vars

(***************************************************************************)
(* Properties of the estimator.                                            *)
(***************************************************************************)

RECURSIVE SumSeq(_)
\* the sum of a sequence of numbers
SumSeq(numbers) == IF numbers = <<>> THEN 0 ELSE Head(numbers) + SumSeq(Tail(numbers))

\* max(a, b)
Max(a, b) == IF a >= b THEN a ELSE b

\* the elements of seq that satisfy Test, in order
Kept(seq, Test(_)) == SelectSeq(seq, Test)

\* a call of calculate_size_from_items has returned
Estimated == op = "calculate_size_from_items"

\* entry is exactly a key of the catalog and has no numeric word
CatalogExact(entry) ==
  /\ entry \in DOMAIN ITEM_CUBIC_FEET
  /\ \A i \in DOMAIN Split(entry) : ~IsDigit(Split(entry)[i])

\* the catalog's own volumes of the entries of items, in tenths
OwnVolumes(items) == [i \in DOMAIN items |-> ITEM_CUBIC_FEET[items[i]]]

\* C1: for a list whose entries are all exactly catalog keys without a quantity
\* word, the returned size is max(20, round(sum of the keys' own catalog
\* volumes / 6)) and the unrecognized list is empty.
C1_CatalogExactSize ==
  (Estimated /\ \A i \in DOMAIN items_list : CatalogExact(items_list[i]))
    => /\ unrecognized_items = <<>>
       /\ size = Max(20, PyRound(SumSeq(OwnVolumes(items_list)), 10 * 6))

\* C2: for every input list the returned size is an integer that is never
\* below 20.
C2_SizeNeverBelowMinimum == Estimated => (size \in Int /\ size >= 20)

\* the empty list, and a list with a quantity 0 and an unrecognized entry, were
\* estimated at 20
C2_Witness ==
  /\ Estimated
  /\ size = 20
  /\ total_cuft = 0
  /\ \E i \in DOMAIN passes : passes[i].qty = 0 /\ Recognized(passes[i])
  /\ unrecognized_items # <<>>

\* the alias keys whose similarity to the parsed names of the pool is at or above
\* the 80% threshold
SimilarKeys ==
  [name \in {PoolPasses[raw].parsed_name : raw \in EntryPool} |->
     {key \in DOMAIN ALIASES : AtLeastCutoff(ratio(key, name))}]

\* no key of close is more similar to name than key is
MostSimilar(key, name, close) ==
  \A other \in close :
    ratio(other, name)[1] * ratio(key, name)[2] <= ratio(key, name)[1] * ratio(other, name)[2]

\* the most similar of the alias keys at or above the threshold
MostSimilarKeys ==
  [name \in DOMAIN SimilarKeys |->
     {key \in SimilarKeys[name] : MostSimilar(key, name, SimilarKeys[name])}]

\* the pass resolved its name to the canonical item of a most similar alias key
ResolvedToAlias(pass) ==
  \E key \in MostSimilarKeys[pass.parsed_name] : pass.item_name = ALIASES[key]

\* the catalog volume of name times qty, nothing for a name the catalog lacks
VolumeOf(name, qty) == IF name \in DOMAIN ITEM_CUBIC_FEET THEN ITEM_CUBIC_FEET[name] * qty ELSE 0

\* what a pass contributes when names below the threshold keep their parsed name
C3_Contribution(pass) ==
  IF SimilarKeys[pass.parsed_name] # {} THEN ITEM_CUBIC_FEET[pass.item_name] * pass.qty
  ELSE VolumeOf(pass.parsed_name, pass.qty)

\* the pass has a name below the threshold that the catalog lacks
C3_Unknown(pass) ==
  SimilarKeys[pass.parsed_name] = {} /\ pass.parsed_name \notin DOMAIN ITEM_CUBIC_FEET

\* C3 (amended): a name whose similarity to some alias key is at or above 80%
\* resolves to the canonical catalog volume of a most similar alias key; a name
\* below the threshold for every alias key keeps its parsed name, is counted with
\* its own catalog volume when it is a catalog key, and only otherwise is reported
\* unrecognized and contributes nothing.
C3_ThresholdResolution ==
  Estimated =>
    /\ \A i \in DOMAIN passes :
         IF SimilarKeys[passes[i].parsed_name] # {}
         THEN ResolvedToAlias(passes[i])
         ELSE passes[i].item_name = passes[i].parsed_name
    /\ total_cuft = SumSeq([i \in DOMAIN passes |-> C3_Contribution(passes[i])])
    /\ unrecognized_items = [i \in DOMAIN Kept(passes, C3_Unknown) |->
                               Kept(passes, C3_Unknown)[i].entry]

\* a misspelt name took the volume of its alias, next to a name no alias key
\* resembles that was reported
C3_Witness ==
  /\ Estimated
  /\ \E i \in DOMAIN passes :
       /\ passes[i].parsed_name \notin DOMAIN ALIASES
       /\ SimilarKeys[passes[i].parsed_name] # {}
       /\ passes[i].item_name # passes[i].parsed_name
       /\ total_cuft = ITEM_CUBIC_FEET[passes[i].item_name] * passes[i].qty
  /\ \E i \in DOMAIN passes : C3_Unknown(passes[i])
  /\ Len(unrecognized_items) = 1

\* the pass has a name below the threshold
C3_Below(pass) == SimilarKeys[pass.parsed_name] = {}

\* what a pass contributes when every name below the threshold contributes nothing
C3_ContributionAsStated(pass) ==
  IF C3_Below(pass) THEN 0 ELSE ITEM_CUBIC_FEET[pass.item_name] * pass.qty

\* C3 as stated: a name at or above the threshold resolves to the alias's volume,
\* and every name below the threshold is reported unrecognized and contributes
\* nothing.
C3_AsStated ==
  Estimated =>
    /\ \A i \in DOMAIN passes :
         SimilarKeys[passes[i].parsed_name] # {}
           => ResolvedToAlias(passes[i])
    /\ total_cuft = SumSeq([i \in DOMAIN passes |-> C3_ContributionAsStated(passes[i])])
    /\ unrecognized_items = [i \in DOMAIN Kept(passes, C3_Below) |->
                               Kept(passes, C3_Below)[i].entry]

\* the trimmed, lowercased entries of items whose pass did not resolve to a
\* catalog name, in input order
RECURSIVE ReportedEntries(_, _)
ReportedEntries(items, ps) ==
  IF items = <<>> THEN <<>>
  ELSE (IF Head(ps).item_name \in DOMAIN ITEM_CUBIC_FEET THEN <<>>
        ELSE <<Lower(Strip(Head(items)))>>)
       \o ReportedEntries(Tail(items), Tail(ps))

\* C4: every entry whose resolved name is in the catalog adds its catalog volume
\* times the quantity to the total and is not reported; every other entry adds
\* nothing and appends the original trimmed, lowercased entry to the unrecognized
\* list, in input order; a size is returned whatever was reported.
C4_TotalAndUnrecognized ==
  Estimated =>
    /\ Len(passes) = Len(items_list)
    /\ total_cuft = SumSeq([i \in DOMAIN passes |-> VolumeOf(passes[i].item_name, passes[i].qty)])
    /\ unrecognized_items = ReportedEntries(items_list, passes)
    /\ size \in Int
    /\ size = Max(20, PyRound(total_cuft, 10 * 6))

\* a recognized entry counted twice its volume, and an entry with capitals, a
\* double space and a quantity reported as it was typed, trimmed and lowercased
C4_Witness ==
  /\ Estimated
  /\ \E i \in DOMAIN passes :
       /\ Recognized(passes[i])
       /\ passes[i].qty = 2
       /\ total_cuft = 2 * ITEM_CUBIC_FEET[passes[i].item_name]
  /\ \E i \in DOMAIN passes :
       /\ ~Recognized(passes[i])
       /\ passes[i].entry # items_list[i]
       /\ passes[i].entry # passes[i].parsed_name
       /\ unrecognized_items = <<passes[i].entry>>

\* words without the word at position i
Without(words, i) == SubSeq(words, 1, i - 1) \o SubSeq(words, i + 1, Len(words))

\* the words of the trimmed, lowercased entries of the pool
PoolWords == [raw \in EntryPool |-> Split(Lower(Strip(raw)))]

\* the words of the trimmed, lowercased entry
WordsOf(raw) == PoolWords[raw]

\* the quantity and the name of pass are those of the first numeric word of words
FirstNumericTaken(pass, words) ==
  \E i \in DOMAIN words :
    /\ IsDigit(words[i])
    /\ \A j \in DOMAIN words : j < i => ~IsDigit(words[j])
    /\ pass.qty = ToInt(words[i])
    /\ pass.parsed_name = Join(Without(words, i))

\* C5: for an entry with a purely numeric word the quantity is the first such
\* word from the left, that one word is removed and the name is the remaining
\* words rejoined in order; for an entry without one the quantity is 1 and the
\* name is all the words.
C5_FirstNumericToken ==
  Estimated =>
    \A i \in DOMAIN passes :
      IF \E j \in DOMAIN WordsOf(items_list[i]) : IsDigit(WordsOf(items_list[i])[j])
      THEN FirstNumericTaken(passes[i], WordsOf(items_list[i]))
      ELSE passes[i].qty = 1 /\ passes[i].parsed_name = Join(WordsOf(items_list[i]))

\* an entry with two numeric words gave the first as the quantity and kept the
\* second in the name, next to an entry without one
C5_Witness ==
  /\ Estimated
  /\ \E i \in DOMAIN passes :
       /\ Cardinality({j \in DOMAIN WordsOf(items_list[i]) : IsDigit(WordsOf(items_list[i])[j])}) = 2
       /\ passes[i].qty = 2
       /\ passes[i].parsed_name = "3 seater"
  /\ \E i \in DOMAIN passes :
       /\ \A j \in DOMAIN WordsOf(items_list[i]) : ~IsDigit(WordsOf(items_list[i])[j])
       /\ passes[i].qty = 1

(***************************************************************************)
(* Size resolution: one call of display_results, show_results or           *)
(* get_known_size with the list get_available_sizes returned.              *)
(***************************************************************************)

InitResolve == op = "start" /\ EstimateIdle /\ ResolveIdle /\ InventoryIdle /\ ProhibitedIdle /\ estimates = <<>> /\ pricing_shown = "nothing" /\ RaceIdle /\ WebIdle /\ TOKEN = TRUE

\* what the caller reports for a list and the suitable size found
Reported(available, suitable) ==
  IF available = <<>> THEN "no units available"
  ELSE IF suitable = <<>> THEN "no suitable size"
  ELSE "suitable size"

\* display_results(site, storage_type, size, items, ...) up to the suitable size
DisplayResults ==
  \E requested \in RequestPool \ {-10}, available \in AvailableLists, items \in BOOLEAN :
    \E suitable \in {IF available = <<>> THEN <<>>
                     ELSE display_results_suitable_size(requested, available, items)} :
      /\ op = "start"
      /\ op' = "display_results"
      /\ requested_size' = requested
      /\ available_sizes' = available
      /\ has_items' = items
      /\ suitable_size' = suitable
      /\ shown' = Reported(available, suitable)
      /\ UNCHANGED <<estVars, invVars, proVars, estimates, pricing_shown, raceVars, webVars>>

\* show_results() up to the suitable size
ShowResults ==
  \E requested \in RequestPool \ {-10}, available \in AvailableLists, items \in BOOLEAN :
    \E suitable \in {IF available = <<>> THEN <<>>
                     ELSE show_results_suitable_size(requested, available, items)} :
      /\ op = "start"
      /\ op' = "show_results"
      /\ requested_size' = requested
      /\ available_sizes' = available
      /\ has_items' = items
      /\ suitable_size' = suitable
      /\ shown' = Reported(available, suitable)
      /\ UNCHANGED <<estVars, invVars, proVars, estimates, pricing_shown, raceVars, webVars>>

\* get_known_size(site, storage_type) with a numeric answer that the customer accepts
GetKnownSize ==
  \E requested \in RequestPool, available \in AvailableLists :
    /\ op = "start"
    /\ op' = "get_known_size"
    /\ requested_size' = requested
    /\ available_sizes' = available
    /\ has_items' = FALSE
    /\ suitable_size' = IF available = <<>> THEN <<>>
                        ELSE <<closest_size(available, requested)>>
    /\ shown' = IF available = <<>> THEN "no units available" ELSE "closest size"
    /\ UNCHANGED <<estVars, invVars, proVars, estimates, pricing_shown, raceVars, webVars>>

NextResolve == DisplayResults \/ ShowResults \/ GetKnownSize

SpecResolve == InitResolve /\ [][NextResolve]_vars

\* C25: for every requested size and every strictly ascending list of
\* available sizes, the size display_results or show_results resolved with
\* or without items is the size either of them resolves with the flag the
\* other way round: the flag and the caller make no difference.
C25_FlagAndCallerAgree ==
  (/\ op \in {"display_results", "show_results"}
   /\ available_sizes # <<>>
   /\ \A i \in 1..(Len(available_sizes) - 1) : available_sizes[i] < available_sizes[i + 1]) =>
    /\ suitable_size = display_results_suitable_size(requested_size, available_sizes, ~has_items)
    /\ suitable_size = show_results_suitable_size(requested_size, available_sizes, ~has_items)
    /\ suitable_size = IF op = "display_results"
                       THEN show_results_suitable_size(requested_size, available_sizes, has_items)
                       ELSE display_results_suitable_size(requested_size, available_sizes,
                                                          has_items)

\* the requested size is in the list behind a smaller one and was resolved
\* without items
C25_Witness ==
  /\ op = "show_results"
  /\ ~has_items
  /\ Len(available_sizes) >= 2
  /\ available_sizes[1] < requested_size
  /\ InList(available_sizes, requested_size)
  /\ suitable_size = <<requested_size>>

(***************************************************************************)
(* Properties of size resolution.                                          *)
(***************************************************************************)

\* display_results or show_results has resolved a size
Resolved == op \in {"display_results", "show_results"}

\* the elements of available_sizes that are >= requested_size
Qualifying == {available_sizes[i] : i \in DOMAIN available_sizes} \cap
              {n \in Int : n >= requested_size}

\* n is the smallest element of the set of numbers
Smallest(n, numbers) == n \in numbers /\ \A m \in numbers : n <= m

\* C6: with items, for every requested size and every sorted list the result is
\* the smallest element of available_sizes that is >= the requested size, and
\* there is no suitable size exactly when no element is >= the requested size.
C6_SmallestAtLeast ==
  (Resolved /\ has_items) =>
    /\ (suitable_size = <<>>) = (Qualifying = {})
    /\ suitable_size # <<>> => Smallest(suitable_size[1], Qualifying)
    /\ (shown = "no suitable size") = (available_sizes # <<>> /\ Qualifying = {})
    /\ (shown = "suitable size") = (Qualifying # {})

\* with items, a size between two available sizes went to the larger one, the
\* exact size being absent and a smaller one present
C6_Witness ==
  /\ Resolved
  /\ has_items
  /\ requested_size = 45
  /\ available_sizes = <<40, 80, 160>>
  /\ suitable_size = <<80>>

\* C7: without items, for every requested size and every sorted list the result
\* is the requested size itself when it is in available_sizes, otherwise the
\* smallest element >= the requested size, otherwise no suitable size; a result
\* is always an element of available_sizes.
C7_ExactThenSmallest ==
  (Resolved /\ ~has_items) =>
    /\ requested_size \in {available_sizes[i] : i \in DOMAIN available_sizes}
         => suitable_size = <<requested_size>>
    /\ (requested_size \notin {available_sizes[i] : i \in DOMAIN available_sizes}
        /\ Qualifying # {})
         => (suitable_size # <<>> /\ Smallest(suitable_size[1], Qualifying))
    /\ Qualifying = {} => suitable_size = <<>>
    /\ suitable_size # <<>>
         => suitable_size[1] \in {available_sizes[i] : i \in DOMAIN available_sizes}

\* without items, a size that is not available fell back to the next larger one
C7_Witness ==
  /\ Resolved
  /\ ~has_items
  /\ requested_size = 45
  /\ available_sizes = <<40, 80>>
  /\ suitable_size = <<80>>

\* C8: for every requested size and every non-empty ascending list, closest_size
\* is an element of available_sizes with minimal absolute difference from the
\* requested size, the smaller one of two equally distant elements.
C8_ClosestSize ==
  (op = "get_known_size" /\ available_sizes # <<>>) =>
    /\ suitable_size # <<>>
    /\ \E i \in DOMAIN available_sizes :
         /\ suitable_size[1] = available_sizes[i]
         /\ \A j \in DOMAIN available_sizes :
              /\ AbsDiff(available_sizes[i], requested_size)
                   <= AbsDiff(available_sizes[j], requested_size)
              /\ AbsDiff(available_sizes[i], requested_size)
                   = AbsDiff(available_sizes[j], requested_size)
                   => available_sizes[i] <= available_sizes[j]

\* a size as far from 40 as from 80 went to 40
C8_Witness ==
  /\ op = "get_known_size"
  /\ requested_size = 60
  /\ available_sizes = <<40, 80>>
  /\ suitable_size = <<40>>

(***************************************************************************)
(* The inventory calls on the shared cache, one after the other.           *)
(***************************************************************************)

Init == op = "start" /\ EstimateIdle /\ ResolveIdle /\ InventoryIdle /\ ProhibitedIdle /\ estimates = <<>> /\ pricing_shown = "nothing" /\ RaceIdle /\ WebIdle /\ TOKEN \in BOOLEAN

\* a caller runs get_pricing_from_api(s, t)
FetchPricing ==
  /\ calls < MaxCalls
  /\ \E s \in CallSites, t \in StorageTypes, response \in Responses :
    \E r \in {get_pricing_from_api(s, t, TOKEN, SITE_PRICING, response)} :
      /\ calls' = calls + 1
      /\ op' = "get_pricing_from_api"
      /\ site' = s
      /\ storage_type' = t
      /\ responses' = IF r.requests = 0 THEN <<>> ELSE <<response>>
      /\ returned' = r.returned
      /\ returned_sizes' = <<>>
      /\ returned_units' = <<>>
      /\ facility_code' = ""
      /\ requests' = r.requests
      /\ SITE_PRICING' = r.pricing
      /\ cached_before' = CachedFor(SITE_PRICING, s, t)
      /\ UNCHANGED <<TOKEN, estVars, resVars, proVars, estimates, pricing_shown, raceVars, webVars>>

\* a caller runs get_available_sizes(s, t)
AvailableSizes ==
  /\ calls < MaxCalls
  /\ \E s \in CallSites, t \in StorageTypes, first \in Responses, second \in Responses :
    \E r \in {get_available_sizes(s, t, TOKEN, SITE_PRICING, first, second)} :
      /\ calls' = calls + 1
      /\ op' = "get_available_sizes"
      /\ site' = s
      /\ storage_type' = t
      /\ responses' = IF r.requests = 0 THEN <<>> ELSE <<first, second>>
      /\ returned' = IF r.raised THEN "raised" ELSE "list"
      /\ returned_sizes' = r.sizes
      /\ returned_units' = <<>>
      /\ facility_code' = ""
      /\ requests' = r.requests
      /\ SITE_PRICING' = r.pricing
      /\ cached_before' = CachedFor(SITE_PRICING, s, t)
      /\ UNCHANGED <<TOKEN, estVars, resVars, proVars, estimates, pricing_shown, raceVars, webVars>>

\* a caller runs get_available_units(code)
AvailableUnits ==
  /\ calls < MaxCalls
  /\ \E code \in FacilityCodes, response \in Responses :
    \E r \in {get_available_units(code, TOKEN, response)} :
      /\ calls' = calls + 1
      /\ op' = "get_available_units"
      /\ facility_code' = code
      /\ site' = ""
      /\ storage_type' = ""
      /\ responses' = IF r.requests = 0 THEN <<>> ELSE <<response>>
      /\ returned' = "list"
      /\ returned_sizes' = <<>>
      /\ returned_units' = r.returned
      /\ requests' = r.requests
      /\ cached_before' = <<>>
      /\ UNCHANGED <<TOKEN, SITE_PRICING, estVars, resVars, proVars, estimates, pricing_shown, raceVars, webVars>>

Next == FetchPricing \/ AvailableSizes \/ AvailableUnits

Spec == Init /\ [][Next]_vars

(***************************************************************************)
(* Properties of the pricing cache.                                        *)
(***************************************************************************)

\* the last call asked the endpoint for pricing, got 200 and went through the
\* whole loop over the units
PricingFetched ==
  /\ op \in {"get_pricing_from_api", "get_available_sizes"}
  /\ responses # <<>>
  /\ responses[1].kind = "answer"
  /\ responses[1].status_code = 200
  /\ ~LoopRaises(responses[1].units)

\* the rack rates of the returned units that are attributed to the site, have a
\* rack rate > 0 and map to the size bucket b
BucketRates(b) ==
  {responses[1].units[i].rack_rate :
     i \in {n \in DOMAIN responses[1].units :
              /\ \/ storage_type # "container"
                 \/ /\ site \in DOMAIN SITE_PREFIXES
                    /\ \E p \in DOMAIN SITE_PREFIXES[site] :
                         StartsWith(responses[1].units[n].unit_number, SITE_PREFIXES[site][p])
              /\ responses[1].units[n].rack_rate > 0
              /\ pricing_size_key(responses[1].units[n], storage_type) = <<b>>}}

\* the size buckets an answer or the cache can name
Buckets ==
  {40, 80, 160, 320}
    \cup {responses[1].units[i].unit_area : i \in DOMAIN responses[1].units}
    \cup DOMAIN SITE_PRICING[site][storage_type]

\* C9: after a successful get_pricing_from_api(site, storage_type), for every size
\* bucket the cache has an entry exactly when some returned unit is attributed to
\* the site, has a rack rate > 0 and maps to the bucket, and the entry's monthly
\* price is the lowest rack rate of those units, with the weekly price of the
\* unit that brought it.
C9_CheapestPerBucket ==
  PricingFetched =>
    /\ site \in DOMAIN SITE_PRICING
    /\ storage_type \in DOMAIN SITE_PRICING[site]
    /\ returned = "True" => DOMAIN SITE_PRICING[site][storage_type] # {}
    /\ \A b \in Buckets :
         /\ (b \in DOMAIN SITE_PRICING[site][storage_type]) = (BucketRates(b) # {})
         /\ b \in DOMAIN SITE_PRICING[site][storage_type]
              => /\ Smallest(SITE_PRICING[site][storage_type][b].monthly, BucketRates(b))
                 /\ SITE_PRICING[site][storage_type][b].weekly =
                      PyRound(SITE_PRICING[site][storage_type][b].monthly * 12, 52)

\* a fetch for boldon containers returned True: three units of the site map to
\* 40, the cheapest seen last, the unit without a rack rate and the units of
\* other sites left no entry
C9_Witness ==
  /\ op = "get_pricing_from_api"
  /\ returned = "True"
  /\ PricingFetched
  /\ site = "boldon"
  /\ storage_type = "container"
  /\ Cardinality(BucketRates(40)) = 2
  /\ DOMAIN SITE_PRICING[site][storage_type] = {40}
  /\ SITE_PRICING[site][storage_type][40].monthly = 5000
  /\ \E i \in DOMAIN responses[1].units :
       /\ responses[1].units[i].rack_rate = 0
       /\ StartsWith(responses[1].units[i].unit_number, "BOL-")

\* the bucket -> price map the answer of the endpoint determines for the site
\* and storage type of the call
DerivedMap ==
  [b \in {c \in Buckets : BucketRates(c) # {}} |->
     [weekly |-> PyRound(12 * (CHOOSE m \in BucketRates(b) : Smallest(m, BucketRates(b))), 52),
      monthly |-> CHOOSE m \in BucketRates(b) : Smallest(m, BucketRates(b))]]

C10_WeeklyFromMonthly ==
  \A s \in DOMAIN SITE_PRICING :
    \A t \in DOMAIN SITE_PRICING[s] :
      \A b \in DOMAIN SITE_PRICING[s][t] :
        /\ SITE_PRICING[s][t][b].monthly > 0
        /\ 2 * (52 * SITE_PRICING[s][t][b].weekly - 12 * SITE_PRICING[s][t][b].monthly) < 52
        /\ 2 * (12 * SITE_PRICING[s][t][b].monthly - 52 * SITE_PRICING[s][t][b].weekly) < 52

\* after two calls the cache holds entries of two sites, among them a monthly
\* price of 520.00 with the weekly price 120.00 and one whose weekly price was
\* rounded up
C10_Witness ==
  /\ calls = 2
  /\ op = "get_available_sizes"
  /\ DOMAIN SITE_PRICING = {"boldon", "wallsend"}
  /\ "container" \in DOMAIN SITE_PRICING["wallsend"]
  /\ 160 \in DOMAIN SITE_PRICING["wallsend"]["container"]
  /\ SITE_PRICING["wallsend"]["container"][160] = [weekly |-> 12000, monthly |-> 52000]
  /\ "container" \in DOMAIN SITE_PRICING["boldon"]
  /\ 40 \in DOMAIN SITE_PRICING["boldon"]["container"]
  /\ SITE_PRICING["boldon"]["container"][40] = [weekly |-> 1154, monthly |-> 5000]

\* the request of the last get_pricing_from_api call failed: the network failed
\* or the status is not 200
PricingCallFailed ==
  /\ op = "get_pricing_from_api"
  /\ responses # <<>>
  /\ \/ responses[1].kind = "raise"
     \/ responses[1].status_code # 200

\* C12: when the inventory endpoint call fails, by a network failure or by any
\* status other than 200, get_pricing_from_api returns the boolean False and
\* does not raise.
C12_FailureReturnsFalse == PricingCallFailed => returned = "False"

RECURSIVE VacantInOrder(_)
\* the units whose unit_status is VACANT, in the order of units
VacantInOrder(units) ==
  IF units = <<>> THEN <<>>
  ELSE (IF Head(units).unit_status = "VACANT" THEN <<Head(units)>> ELSE <<>>)
       \o VacantInOrder(Tail(units))

\* C13: get_available_units returns exactly the server-returned units whose
\* unit_status is VACANT, in server order, when the call answers 200; it returns
\* the empty list and raises nothing when the credential is missing, the request
\* fails or the status is not 200; without the credential no request is made.
C13_VacantUnitsOrEmpty ==
  op = "get_available_units" =>
    /\ returned = "list"
    /\ ~TOKEN => (requests = 0 /\ returned_units = <<>>)
    /\ TOKEN =>
         /\ requests = 1
         /\ responses # <<>>
         /\ IF responses[1].kind = "answer" /\ responses[1].status_code = 200
            THEN returned_units = VacantInOrder(responses[1].units)
            ELSE returned_units = <<>>

\* an answer with an occupied unit among vacant ones gave the vacant ones
C13_Witness ==
  /\ op = "get_available_units"
  /\ TOKEN
  /\ responses # <<>>
  /\ responses[1].status_code = 200
  /\ Len(responses[1].units) = 7
  /\ Len(returned_units) = 6
  /\ returned_units[3].unit_number = "BOL-4"

\* the units request of the last get_available_sizes call was answered with 200
UnitsFetched ==
  /\ TOKEN
  /\ Len(responses) = 2
  /\ responses[2].kind = "answer"
  /\ responses[2].status_code = 200

\* the unit is attributed to the site of the call
AttributedToSite(unit) ==
  \/ storage_type # "container"
  \/ /\ site \in DOMAIN SITE_PREFIXES
     /\ \E p \in DOMAIN SITE_PREFIXES[site] : StartsWith(unit.unit_number, SITE_PREFIXES[site][p])

\* the vacant units of the answer that are attributed to the site of the call
VacantAttributed ==
  {i \in DOMAIN responses[2].units :
     /\ responses[2].units[i].unit_status = "VACANT"
     /\ AttributedToSite(responses[2].units[i])}

\* every unit record of the answers has a string as its type code
RecordsOfDataModel ==
  \A i \in DOMAIN responses : \A j \in DOMAIN responses[i].units :
    responses[i].units[j].unit_type_code # JsonNull

C14_NoneAttributed ==
  /\ op = "get_available_sizes"
  /\ UnitsFetched
  /\ RecordsOfDataModel
  /\ responses[2].units # <<>>
  /\ VacantAttributed = {}
  /\ returned_sizes = <<>>


(***************************************************************************)
(* The prohibited-item screen: one call of check_prohibited_items.         *)
(***************************************************************************)

InitProhibited ==
  op = "start" /\ EstimateIdle /\ ResolveIdle /\ InventoryIdle /\ ProhibitedIdle /\ estimates = <<>> /\ pricing_shown = "nothing" /\ RaceIdle /\ WebIdle /\ TOKEN = TRUE

\* a caller runs check_prohibited_items(items, t), once in a behaviour
CheckProhibited ==
  /\ op = "start"
  /\ \E items \in DescriptionLists, t \in StorageTypes :
      /\ op' = "check_prohibited_items"
      /\ checked_items' = items
      /\ checked_type' = t
      /\ prohibited_found' = check_prohibited_items(items, t)
      /\ UNCHANGED <<estVars, resVars, invVars, estimates, pricing_shown, raceVars, webVars>>

NextProhibited == CheckProhibited

SpecProhibited == InitProhibited /\ [][NextProhibited]_vars

\* the substrings that make a description prohibited for a storage type
ProhibitedSubstrings(t) ==
  { PROHIBITED_ITEMS_GENERAL[i] : i \in DOMAIN PROHIBITED_ITEMS_GENERAL } \cup
  IF t = "container"
  THEN { PROHIBITED_ITEMS_CONTAINER[i] : i \in DOMAIN PROHIBITED_ITEMS_CONTAINER }
  ELSE { PROHIBITED_ITEMS_INTERNAL[i] : i \in DOMAIN PROHIBITED_ITEMS_INTERNAL }

\* the descriptions of the pool that are prohibited for a storage type
Flagged ==
  [t \in StorageTypes |->
    { d \in DescriptionPool : \E sub \in ProhibitedSubstrings(t) : Contains(Lower(d), sub) }]

\* the positions of the screened list whose description is prohibited
FlaggedPositions ==
  { i \in DOMAIN checked_items : checked_items[i] \in Flagged[checked_type] }

\* C15: check_prohibited_items returns, in input order and once per
\* occurrence, exactly the original descriptions whose lowercased text
\* contains a substring of the container and general lists (container) or
\* of the internal and general lists (otherwise); "fuel can" is returned for
\* container and not for internal, a description with a general substring
\* for both.
C15_ProhibitedScreen ==
  op = "check_prohibited_items" =>
    /\ \E f \in [1..Len(prohibited_found) -> FlaggedPositions] :
         /\ \A i \in FlaggedPositions : \E k \in DOMAIN f : f[k] = i
         /\ \A k, l \in DOMAIN f : k < l => f[k] < f[l]
         /\ \A k \in DOMAIN f : prohibited_found[k] = checked_items[f[k]]
    /\ \A i \in DOMAIN checked_items :
         /\ checked_items[i] = "fuel can" =>
              (i \in FlaggedPositions) = (checked_type = "container")
         /\ checked_items[i] \in {"Red Wine", "beer"} => i \in FlaggedPositions

\* a container screen returned both "fuel can" and a description written
\* with capitals that holds a general substring, in the order given
C15_Witness ==
  /\ op = "check_prohibited_items"
  /\ checked_type = "container"
  /\ checked_items = <<"Red Wine", "fuel can">>
  /\ prohibited_found = <<"Red Wine", "fuel can">>

\* an internal screen left "fuel can" out and returned the general description
C15_WitnessInternal ==
  /\ op = "check_prohibited_items"
  /\ checked_type = "internal"
  /\ checked_items = <<"fuel can", "beer">>
  /\ prohibited_found = <<"beer">>


(***************************************************************************)
(* Properties of the alias table.                                          *)
(***************************************************************************)

\* the keys the literal gives a value the catalog lacks
DiscardedKeys ==
  {k \in DOMAIN ALIASES_written : ALIASES_written[k] \notin DOMAIN ITEM_CUBIC_FEET}

\* the parsed name of the pass is an alias key, or an alias key is similar enough
ThroughAliasTable(pass) ==
  \/ pass.parsed_name \in DOMAIN ALIASES
  \/ SimilarKeys[pass.parsed_name] # {}

\* the table the module holds once loaded: its values are catalog keys, the
\* discarded keys are gone and the other pairs are as written
LoadedAliasesInCatalog ==
  /\ \A k \in DOMAIN ALIASES : ALIASES[k] \in DOMAIN ITEM_CUBIC_FEET
  /\ DiscardedKeys \cap DOMAIN ALIASES = {}
  /\ \A k \in DOMAIN ALIASES_written \ DiscardedKeys :
       k \in DOMAIN ALIASES /\ ALIASES[k] = ALIASES_written[k]

\* C16: once the module is loaded every value of ALIASES is a catalog key
\* and the pairs of the literal whose value is not a catalog key are absent;
\* an entry whose name is resolved through the alias table, by an exact key
\* or by a close match, is never reported as unrecognized.
C16_AliasesResolveToCatalog ==
  /\ LoadedAliasesInCatalog
  /\ op = "calculate_size_from_items" =>
       \A i \in DOMAIN passes :
         ThroughAliasTable(passes[i]) =>
           /\ Recognized(passes[i])
           /\ \A j \in DOMAIN unrecognized_items : unrecognized_items[j] # passes[i].entry

\* a name resolved by a close match was counted next to the name of a
\* discarded pair, which was reported
C16_Witness ==
  /\ op = "calculate_size_from_items"
  /\ items_list = <<"washing machne", "bike rack">>
  /\ "bike rack" \in DiscardedKeys
  /\ ThroughAliasTable(passes[1])
  /\ passes[1].item_name = "washing machine"
  /\ ~ThroughAliasTable(passes[2])
  /\ unrecognized_items = <<"bike rack">>


(***************************************************************************)
(* Estimates between inventory calls: calculate_size_from_items,           *)
(* get_pricing_from_api and get_available_sizes in any order.              *)
(***************************************************************************)

\* the number of calls of one behaviour
MaxSteps == 3

\* the lists estimated
EstimatedLists == {<<"2 3 seater", "  Sofa BED ">>, <<"washing machne">>, <<"bike rack", "piano">>}

\* the site asked about and the answers of the endpoint
EstimateSites == {"boldon"}

EstimateResponses ==
  {r \in Responses : r.kind = "raise" \/ (r.status_code = 200 /\ Len(r.units) = 7)}

\* an estimate that takes the smallest size once the cache holds a bucket
estimate_in_state_cached(items, pricing) ==
  IF \E s \in DOMAIN pricing : \E t \in DOMAIN pricing[s] : DOMAIN pricing[s][t] # {}
  THEN [calculate_size_from_items(items) EXCEPT !.size = MIN_SIZE]
  ELSE calculate_size_from_items(items)

\* calculate_size_from_items(items) called while SITE_PRICING is pricing: the
\* body reads items_list, ALIASES and ITEM_CUBIC_FEET and nothing else
estimate_in_state(items, pricing) == calculate_size_from_items(items)

InitPurity ==
  op = "start" /\ EstimateIdle /\ ResolveIdle /\ InventoryIdle /\ ProhibitedIdle
  /\ estimates = <<>> /\ pricing_shown = "nothing" /\ RaceIdle /\ WebIdle /\ TOKEN = TRUE

\* a caller runs calculate_size_from_items(items)
EstimateSize ==
  /\ calls < MaxSteps
  /\ \E items \in EstimatedLists :
    \E r \in {estimate_in_state(items, SITE_PRICING)} :
      /\ calls' = calls + 1
      /\ op' = "calculate_size_from_items"
      /\ items_list' = items
      /\ size' = r.size
      /\ unrecognized_items' = r.unrecognized_items
      /\ total_cuft' = r.total_cuft
      /\ passes' = r.passes
      /\ UNCHANGED <<TOKEN, SITE_PRICING, cached_before, site, storage_type, responses,
                     returned, returned_sizes, returned_units, facility_code, requests>>
      /\ estimates' = Append(estimates,
                             [items_list |-> items, size |-> r.size,
                              unrecognized_items |-> r.unrecognized_items,
                              before |-> SITE_PRICING, after |-> SITE_PRICING'])
      /\ UNCHANGED <<resVars, proVars, pricing_shown, raceVars, webVars>>

\* a caller runs get_pricing_from_api(s, t) between two estimates
PricingBetween ==
  /\ calls < MaxSteps
  /\ \E s \in EstimateSites, t \in StorageTypes, response \in EstimateResponses :
    \E r \in {get_pricing_from_api(s, t, TOKEN, SITE_PRICING, response)} :
      /\ calls' = calls + 1
      /\ op' = "get_pricing_from_api"
      /\ site' = s
      /\ storage_type' = t
      /\ responses' = IF r.requests = 0 THEN <<>> ELSE <<response>>
      /\ returned' = r.returned
      /\ returned_sizes' = <<>>
      /\ returned_units' = <<>>
      /\ facility_code' = ""
      /\ requests' = r.requests
      /\ SITE_PRICING' = r.pricing
      /\ cached_before' = CachedFor(SITE_PRICING, s, t)
      /\ UNCHANGED <<TOKEN, estVars, resVars, proVars, estimates, pricing_shown, raceVars, webVars>>

\* a caller runs get_available_sizes(s, t) between two estimates
SizesBetween ==
  /\ calls < MaxSteps
  /\ \E s \in EstimateSites, t \in StorageTypes,
        first \in EstimateResponses, second \in EstimateResponses :
    \E r \in {get_available_sizes(s, t, TOKEN, SITE_PRICING, first, second)} :
      /\ calls' = calls + 1
      /\ op' = "get_available_sizes"
      /\ site' = s
      /\ storage_type' = t
      /\ responses' = IF r.requests = 0 THEN <<>> ELSE <<first, second>>
      /\ returned' = IF r.raised THEN "raised" ELSE "list"
      /\ returned_sizes' = r.sizes
      /\ returned_units' = <<>>
      /\ facility_code' = ""
      /\ requests' = r.requests
      /\ SITE_PRICING' = r.pricing
      /\ cached_before' = CachedFor(SITE_PRICING, s, t)
      /\ UNCHANGED <<TOKEN, estVars, resVars, proVars, estimates, pricing_shown, raceVars, webVars>>

NextPurity == EstimateSize \/ PricingBetween \/ SizesBetween

SpecPurity == InitPurity /\ [][NextPurity]_vars

InitOffer ==
  op = "start" /\ EstimateIdle /\ ResolveIdle /\ InventoryIdle /\ ProhibitedIdle
  /\ estimates = <<>> /\ pricing_shown = "nothing" /\ RaceIdle /\ WebIdle /\ TOKEN = TRUE

\* what a caller leaves behind
Shows(caller, s, t, has, r, answers) ==
  /\ op' = caller
  /\ site' = s
  /\ storage_type' = t
  /\ has_items' = has
  /\ requested_size' = r.requested_size
  /\ available_sizes' = r.available_sizes
  /\ suitable_size' = r.suitable_size
  /\ shown' = r.shown
  /\ pricing_shown' = r.pricing_shown
  /\ SITE_PRICING' = r.pricing
  /\ responses' = answers
  /\ requests' = r.requests
  /\ UNCHANGED <<TOKEN, cached_before, returned, returned_sizes, returned_units,
                 facility_code, calls, estVars, proVars, estimates,
                 raceVars, webVars>>

\* main: a vehicle is to be stored, the customer picks a site and a size
VehicleToContainer ==
  /\ op = "start"
  /\ \E s \in OfferSites, size_choice \in 1..3,
        units_by \in OfferResponses, priced_by \in OfferResponses,
        first \in OfferResponses, second \in OfferResponses, again \in OfferResponses :
    \E r \in {vehicle_to_container(s, TOKEN, SITE_PRICING, units_by, priced_by, size_choice,
                                   first, second, again)} :
      Shows("vehicle_to_container", s, "container", FALSE, r, <<units_by, priced_by>>)

\* display_results(s, t, size, items, ...) for a site of sites and a size of sizes
DisplayResultsFor(sites, sizes) ==
  \E s \in sites, t \in StorageTypes, requested \in sizes, items \in BOOLEAN,
     first \in OfferResponses, second \in OfferResponses, again \in OfferResponses :
    \E r \in {display_results(s, t, requested, items, TOKEN, SITE_PRICING, first, second, again)} :
      Shows("display_results", s, t, items, r, <<first, second>>)

\* show_results() with s, t and size in the session
ShowResultsFor(sites, sizes) ==
  \E s \in sites, t \in StorageTypes, requested \in sizes, items \in BOOLEAN,
     first \in OfferResponses, second \in OfferResponses :
    \E r \in {show_results(s, t, requested, items, TOKEN, SITE_PRICING, first, second)} :
      Shows("show_results", s, t, items, r, <<first, second>>)

\* the first resolution of a process
DisplayResultsPriced == op = "start" /\ DisplayResultsFor(OfferSites, OfferSizes)

ShowResultsPriced == op = "start" /\ ShowResultsFor(OfferSites, OfferSizes)

NextOffer == VehicleToContainer \/ DisplayResultsPriced \/ ShowResultsPriced

SpecOffer == InitOffer /\ [][NextOffer]_vars

(***************************************************************************)
(* Resolutions that follow one another in one process: the cache a         *)
(* resolution left is the cache the next one starts with.                  *)
(***************************************************************************)

\* the site and the sizes of the resolutions that follow one another
StaleSites == {"boldon"}

StaleSizes == {40}

NextStale ==
  \/ DisplayResultsFor(StaleSites, StaleSizes)
  \/ ShowResultsFor(StaleSites, StaleSizes)

SpecStale == InitOffer /\ [][NextStale]_vars

\* C24: every price show_results or display_results shows was derived by a
\* pricing fetch that succeeded during the same resolution, the fetch of
\* get_available_sizes or the second fetch of display_results: no price
\* cached by an earlier resolution is shown when the pricing fetch of the
\* resolution fails while its unit fetch succeeds.
C24_NoFallbackPricing ==
  (op \in {"display_results", "show_results"} /\ pricing_shown = "price") =>
    \/ responses[1].kind = "answer" /\ responses[1].status_code = 200
    \/ requests = 3

(***************************************************************************)
(* The HTTP requests of one call: each inventory call and each resolution  *)
(* is made once, with and without the credential, over the empty cache of  *)
(* a new process.                                                          *)
(***************************************************************************)

NextRequests ==
  \/ op = "start" /\ FetchPricing
  \/ op = "start" /\ AvailableUnits
  \/ op = "start" /\ AvailableSizes
  \/ DisplayResultsPriced
  \/ ShowResultsPriced

SpecRequests == Init /\ [][NextRequests]_vars

\* the calls the count of requests is stated for
CountedCalls ==
  {"get_pricing_from_api", "get_available_units", "get_available_sizes",
   "display_results", "show_results"}

\* C22: fetch_live_units and fetch_pricing issue at most one HTTP request per
\* call and none without the credential; available_sizes issues two with the
\* credential, one by fetch_pricing and one by fetch_live_units, for the same
\* facility; the resolution of show_results issues those two, the one of
\* display_results those two and a third, a second pricing fetch, only when
\* a suitable size was found that has no cached price.
C22_RequestsPerCall ==
  /\ op \in CountedCalls /\ ~TOKEN => requests = 0
  /\ op \in {"get_pricing_from_api", "get_available_units"} => requests <= 1
  /\ op \in {"get_available_sizes", "show_results"} /\ TOKEN => requests = 2
  /\ op = "display_results" /\ TOKEN => requests \in {2, 3}
  /\ op = "display_results" /\ requests = 3 =>
       /\ shown = "suitable size"
       /\ suitable_size # <<>>
       /\ suitable_size[1] \notin
            DOMAIN CachedFor(get_pricing_from_api(site, storage_type, TOKEN, <<>>,
                                                  responses[1]).pricing,
                             site, storage_type)

\* display_results fetched the pricing a second time
C22_Witness == op = "display_results" /\ requests = 3 /\ pricing_shown = "price"

\* C22 as stated: no call issues more than one HTTP request
C22_AtMostOneRequest == op \in CountedCalls => requests <= 1

\* a size was offered or selected and the cache has no price for it
PriceMissing ==
  /\ op \in {"vehicle_to_container", "display_results", "show_results"}
  /\ suitable_size # <<>>
  /\ suitable_size[1] \notin DOMAIN CachedFor(SITE_PRICING, site, storage_type)

\* C18: no path terminates the process on a missing price: when a size is
\* offered or selected that SITE_PRICING has no entry for, the caller shows
\* that pricing is not available and goes on, in the vehicle-to-container path
\* of main, in display_results and in show_results.
C18_MissingPriceIsShown ==
  PriceMissing => (shown # "terminated" /\ pricing_shown = "pricing not available")

\* display_results and show_results on their own show the missing price
C18_GuardedCallers ==
  (PriceMissing /\ op \in {"display_results", "show_results"}) =>
    (shown # "terminated" /\ pricing_shown = "pricing not available")

\* display_results left a size without a price
C18_GuardedWitness ==
  /\ PriceMissing
  /\ op = "display_results"
  /\ pricing_shown = "pricing not available"


(***************************************************************************)
(* The two size mappings, on the units one call of get_available_sizes     *)
(* receives for its pricing request and for its units request.             *)
(***************************************************************************)

\* the units the call received
ReceivedUnits ==
  UNION {{responses[i].units[j] : j \in DOMAIN responses[i].units} : i \in DOMAIN responses}

\* C19: for every unit record, site and storage type, get_available_sizes
\* attributes the unit to the site and maps it to a size bucket, or discards
\* it, exactly as get_pricing_from_api does: the same unit is never put in
\* different buckets and the two never disagree on whether it is mappable.
C19_SameBucketInBoth ==
  (op = "get_available_sizes" /\ PricingFetched /\ UnitsFetched /\ RecordsOfDataModel) =>
    \A unit \in ReceivedUnits :
      pricing_size_key(unit, storage_type) = availability_size_key(unit, storage_type)

\* the four container buckets
ContainerBuckets == {40, 80, 160, 320}

\* C20: for container storage, in get_pricing_from_api and in
\* get_available_sizes, a unit maps to at most one bucket of 40, 80, 160 and
\* 320 and an exact area match comes before the type-code substrings: a unit
\* whose area is one of the four is placed in the bucket of its area whatever
\* its type code holds.
C20_AreaBeforeTypeCode ==
  /\ (op = "get_pricing_from_api" /\ PricingFetched /\ storage_type = "container") =>
       \A unit \in ReceivedUnits :
         (AttributedToSite(unit) /\ unit.rack_rate > 0 /\ unit.unit_area \in ContainerBuckets) =>
           /\ pricing_size_key(unit, storage_type) = <<unit.unit_area>>
           /\ unit.unit_area \in DOMAIN CachedFor(SITE_PRICING, site, storage_type)
  /\ (op = "get_available_sizes" /\ UnitsFetched /\ RecordsOfDataModel
        /\ storage_type = "container") =>
       \A i \in VacantAttributed :
         responses[2].units[i].unit_area \in ContainerBuckets =>
           /\ availability_size_key(responses[2].units[i], storage_type)
                = <<responses[2].units[i].unit_area>>
           /\ InList(returned_sizes, responses[2].units[i].unit_area)

(***************************************************************************)
(* Concurrent requests of the web application.  Each request runs in its   *)
(* own thread over the one SITE_PRICING of the process; nothing locks it.  *)
(* A thread is preempted between any two reads or writes of the table:      *)
(* SITE_PRICING[site] is a dict object, a subscripted store loads the      *)
(* object first and writes into it afterwards, and an object another       *)
(* thread has replaced in the meantime is no longer the one the table      *)
(* holds.  The steps a thread does on its own variables are taken together *)
(* with its next step on the table.                                        *)
(***************************************************************************)

\* the two requests of a race
Threads == {1, 2}

\* the answers of the endpoint to a racing request
RaceResponses ==
  {r \in Responses : r.kind = "raise" \/ r.status_code # 200 \/ Len(r.units) \in {3, 7}}

\* the requests that can race: their site, their storage type and the answer
\* of the endpoint to their fetch
RaceRequests ==
  [site : CallSites, storage_type : StorageTypes, response : RaceResponses]

\* size_pricing as the loop of get_pricing_from_api leaves it for a request
size_pricing_of(r) == pricing_loop(r.response.units, r.site, r.storage_type, <<>>)

\* the table as a lookup sees it: the dict each site is bound to
RacePricing == [s \in DOMAIN site_refs |-> site_dicts[site_refs[s]]]

\* nothing was read yet by a thread
Unread == [seen |-> "unread", entry |-> <<>>]

\* the keying of the entry by storage type dropped: every entry of the site
\* is overwritten
StoredEntry_shared(dicts, id, t, size_pricing) ==
  [dicts EXCEPT ![id] = [k \in DOMAIN @ \cup {t} |-> size_pricing]]

\* the store of SITE_PRICING[site][storage_type] = value into the loaded dict
StoredEntry(dicts, id, t, size_pricing) ==
  [dicts EXCEPT ![id] = DictSet(@, t, size_pricing)]

\* a thread moves to another line, the table untouched
Goto(t, line) ==
  /\ pc' = [pc EXCEPT ![t] = line]
  /\ UNCHANGED <<site_dicts, site_refs, held, fetch_returned, observed>>

\* get_pricing_from_api up to the status test: without the credential and
\* when the request raises it returns False, on a status other than 200 it
\* ends without a return
RaceRequest(t) ==
  /\ pc[t] = "request"
  /\ IF ~TOKEN \/ request[t].response.kind = "raise"
     THEN /\ fetch_returned' = [fetch_returned EXCEPT ![t] = "False"]
          /\ pc' = [pc EXCEPT ![t] = "read"]
     ELSE IF request[t].response.status_code # 200
     THEN /\ fetch_returned' = [fetch_returned EXCEPT ![t] = "None"]
          /\ pc' = [pc EXCEPT ![t] = "read"]
     ELSE /\ fetch_returned' = fetch_returned
          /\ pc' = [pc EXCEPT ![t] = "check_site"]
  /\ UNCHANGED <<site_dicts, site_refs, held, observed>>

\* if site not in SITE_PRICING
RaceCheckSite(t) ==
  /\ pc[t] = "check_site"
  /\ Goto(t, IF request[t].site \notin DOMAIN site_refs THEN "init_site" ELSE "load_site")

\* SITE_PRICING[site] = {}: the site is bound to a new dict
RaceInitSite(t) ==
  /\ pc[t] = "init_site"
  /\ site_dicts' = Append(site_dicts, <<>>)
  /\ site_refs' = DictSet(site_refs, request[t].site, Len(site_dicts) + 1)
  /\ pc' = [pc EXCEPT ![t] = "load_site"]
  /\ UNCHANGED <<held, fetch_returned, observed>>

\* SITE_PRICING[site] is loaded for the test of the storage type
RaceLoadSite(t) ==
  /\ pc[t] = "load_site"
  /\ held' = [held EXCEPT ![t] = site_refs[request[t].site]]
  /\ pc' = [pc EXCEPT ![t] = "check_type"]
  /\ UNCHANGED <<site_dicts, site_refs, fetch_returned, observed>>

\* if storage_type not in the loaded dict
RaceCheckType(t) ==
  /\ pc[t] = "check_type"
  /\ Goto(t, IF request[t].storage_type \notin DOMAIN site_dicts[held[t]]
             THEN "init_load" ELSE "store_load")

\* SITE_PRICING[site][storage_type] = {}: the dict of the site is loaded
RaceInitLoad(t) ==
  /\ pc[t] = "init_load"
  /\ held' = [held EXCEPT ![t] = site_refs[request[t].site]]
  /\ pc' = [pc EXCEPT ![t] = "init_store"]
  /\ UNCHANGED <<site_dicts, site_refs, fetch_returned, observed>>

\* ... and {} is stored into it
RaceInitStore(t) ==
  /\ pc[t] = "init_store"
  /\ site_dicts' = StoredEntry(site_dicts, held[t], request[t].storage_type, <<>>)
  /\ pc' = [pc EXCEPT ![t] = "store_load"]
  /\ UNCHANGED <<site_refs, held, fetch_returned, observed>>

\* the loop over the units, on the thread's own size_pricing, and the load of
\* SITE_PRICING[site] for SITE_PRICING[site][storage_type] = size_pricing
RaceStoreLoad(t) ==
  /\ pc[t] = "store_load"
  /\ held' = [held EXCEPT ![t] = site_refs[request[t].site]]
  /\ pc' = [pc EXCEPT ![t] = "store"]
  /\ UNCHANGED <<site_dicts, site_refs, fetch_returned, observed>>

\* ... the store into it, and return len(size_pricing) > 0
RaceStore(t) ==
  /\ pc[t] = "store"
  /\ \E size_pricing \in {size_pricing_of(request[t])} :
       /\ site_dicts' = StoredEntry(site_dicts, held[t], request[t].storage_type, size_pricing)
       /\ fetch_returned' = [fetch_returned EXCEPT
                        ![t] = IF Cardinality(DOMAIN size_pricing) > 0 THEN "True" ELSE "False"]
  /\ pc' = [pc EXCEPT ![t] = "read"]
  /\ UNCHANGED <<site_refs, held, observed>>

\* show_results after its fetch: if site in SITE_PRICING and storage_type in
\* SITE_PRICING[site]
RaceRead(t) ==
  /\ pc[t] = "read"
  /\ IF /\ request[t].site \in DOMAIN RacePricing
        /\ request[t].storage_type \in DOMAIN RacePricing[request[t].site]
     THEN /\ pc' = [pc EXCEPT ![t] = "read_entry"]
          /\ observed' = observed
     ELSE /\ pc' = [pc EXCEPT ![t] = "done"]
          /\ observed' = [observed EXCEPT ![t] = [seen |-> "none", entry |-> <<>>]]
  /\ UNCHANGED <<site_dicts, site_refs, held, fetch_returned>>

\* ... then SITE_PRICING[site][storage_type] is read under the thread's own
\* site and storage type: a KeyError where the dict of the site was replaced
\* since the test, otherwise the map the result's price is taken from
RaceReadEntry(t) ==
  /\ pc[t] = "read_entry"
  /\ observed' = [observed EXCEPT
       ![t] = IF request[t].storage_type \in DOMAIN RacePricing[request[t].site]
              THEN [seen |-> "entry",
                    entry |-> RacePricing[request[t].site][request[t].storage_type]]
              ELSE [seen |-> "KeyError", entry |-> <<>>]]
  /\ pc' = [pc EXCEPT ![t] = "done"]
  /\ UNCHANGED <<site_dicts, site_refs, held, fetch_returned>>

\* one step of one request
RaceStep(t) ==
  /\ \/ RaceRequest(t)
     \/ RaceCheckSite(t)
     \/ RaceInitSite(t)
     \/ RaceLoadSite(t)
     \/ RaceCheckType(t)
     \/ RaceInitLoad(t)
     \/ RaceInitStore(t)
     \/ RaceStoreLoad(t)
     \/ RaceStore(t)
     \/ RaceRead(t)
     \/ RaceReadEntry(t)
  /\ UNCHANGED <<op, estVars, resVars, invVars, proVars, estimates, pricing_shown,
                 request, webVars>>

\* two requests for different combinations of site and storage type start
\* over the empty table of a new process
InitRace ==
  /\ op = "start" /\ EstimateIdle /\ ResolveIdle /\ InventoryIdle /\ ProhibitedIdle
  /\ estimates = <<>> /\ pricing_shown = "nothing" /\ WebIdle /\ TOKEN \in BOOLEAN
  /\ request \in [Threads -> RaceRequests]
  /\ <<request[1].site, request[1].storage_type>>
       # <<request[2].site, request[2].storage_type>>
  /\ pc = [t \in Threads |-> "request"]
  /\ site_dicts = <<>>
  /\ site_refs = <<>>
  /\ held = [t \in Threads |-> 0]
  /\ fetch_returned = [t \in Threads |-> "running"]
  /\ observed = [t \in Threads |-> Unread]

NextRace == \E t \in Threads : RaceStep(t)

\* the server runs every request to its end
SpecRace == InitRace /\ [][NextRace]_vars /\ \A t \in Threads : WF_vars(RaceStep(t))

\* the other request of a race
Other(t) == CHOOSE u \in Threads : u # t

BothReturned == pc # <<>> /\ \A t \in Threads : fetch_returned[t] # "running"

\* C27: when fetch_pricing(site, A) and fetch_pricing(site, B) for two
\* storage types of one site run concurrently and both return true, the
\* table holds, once both returned, the entry written for (site, A) and the
\* entry written for (site, B).
C27_BothEntriesKept ==
  (/\ BothReturned
   /\ request[1].site = request[2].site
   /\ \A t \in Threads : fetch_returned[t] = "True") =>
    \A t \in Threads :
      CachedFor(RacePricing, request[t].site, request[t].storage_type)
        = size_pricing_of(request[t])

(***************************************************************************)
(* The web application.  The Flask session is a dict; a handler reads its  *)
(* form or its URL, tests the keys of the session and stores into it.  A   *)
(* request a handler turns away with a redirect or a flashed error before  *)
(* it stored anything leaves everything as it was.                         *)
(***************************************************************************)

\* the storage types a form or a URL can carry: nothing ties them to the
\* options of the page
FormTypes == {"container", "internal", "garage"}

\* the sites a form carries
FormSites == {"boldon", "sunderland"}

\* the sites and storage types in the URL of /api/availability
UrlSites == {"mars"}

UrlTypes == {"garage"}

\* the values of the field size of the known-size form
FormSizes == {"40", "big"}

\* the answers of the endpoint to the two requests of a web request
WebResponses == {r \in Responses : Len(r.units) = 7}

WebAnswers == {<<r, r>> : r \in WebResponses}

\* session.get(key, default)
SessionGet(d, key, default) == IF key \in DOMAIN d THEN d[key] ELSE default

\* start, a form that passes the validation
start(d, name) ==
  DictSet(DictSet(DictSet(d, "customer_name", name), "customer_phone", "07123456789"),
          "customer_email", "a@b.co")

\* items_input, POST
items_input(d, description) ==
  IF Strip(description) = "" THEN d ELSE DictSet(d, "description", Strip(description))

\* choose_storage_type_for_items, POST
choose_storage_type_for_items(d, form_type) ==
  IF form_type \in {"container", "internal"}
  THEN IF form_type = "internal"
       THEN DictSet(DictSet(d, "storage_type", form_type), "site", "sunderland")
       ELSE DictSet(d, "storage_type", form_type)
  ELSE d

\* choose_size, POST
choose_size(d, form_type) ==
  IF form_type = "" THEN d
  ELSE IF form_type = "internal"
  THEN DictSet(DictSet(DictSet(d, "storage_type", form_type), "size_method", "known"),
               "site", "sunderland")
  ELSE DictSet(DictSet(d, "storage_type", form_type), "size_method", "known")

\* the site stored whatever the storage type of the session is
select_site_unchecked(d, form_site) ==
  IF form_site = "" THEN d
  ELSE IF "storage_type" \notin DOMAIN d
  THEN DictSet(DictSet(d, "site", form_site), "storage_type", "container")
  ELSE DictSet(d, "site", form_site)

\* select_site, POST
select_site(d, form_site) ==
  IF form_site = "" THEN d
  ELSE IF SessionGet(d, "storage_type", "container") = "internal" /\ form_site # "sunderland"
  THEN d
  ELSE IF "storage_type" \notin DOMAIN d
  THEN DictSet(DictSet(d, "site", form_site), "storage_type", "container")
  ELSE DictSet(d, "site", form_site)

\* vehicle_warning, POST
vehicle_warning(d, switch) ==
  IF switch = "yes" THEN DictSet(d, "storage_type", "container") ELSE d

\* calculate_size_from_items and check_prohibited_items of every description
\* and storage type of the forms, computed once
Processed ==
  [d \in WebDescriptions |->
    [size |-> calculate_size_from_items(Described[d].items).size,
     unrecognized |-> calculate_size_from_items(Described[d].items).unrecognized_items,
     prohibited |-> [t \in FormTypes |-> check_prohibited_items(Described[d].items, t)]]]

\* process_items once the session has a description, a storage type and a site
process_items(d) ==
  IF Described[d["description"]].vehicle_mentioned /\ d["storage_type"] = "internal"
  THEN DictSet(d, "vehicle_warning", TRUE)
  ELSE DictSet(DictSet(DictSet(DictSet(d,
         "calculated_size", Processed[d["description"]].size),
         "items", Described[d["description"]].items),
         "unrecognized_items", Processed[d["description"]].unrecognized),
         "prohibited_items", Processed[d["description"]].prohibited[d["storage_type"]])

\* select_known_size from the list of get_available_sizes on: the form, "GET"
\* for a request without one
select_known_size(d, listed, form) ==
  IF listed.raised \/ listed.sizes = <<>> \/ form = "GET" \/ ~IsDigit(form) THEN d
  ELSE DictSet(DictSet(DictSet(DictSet(d,
         "selected_size", ToInt(form)),
         "items", <<>>),
         "unrecognized_items", <<>>),
         "prohibited_items", <<>>)

\* show_results: the size of the session
session_size(d) ==
  IF "selected_size" \in DOMAIN d THEN d["selected_size"] ELSE d["calculated_size"]

\* a handler that calls nothing of the core stored into the session
Stored(handler, d) ==
  /\ op' = handler
  /\ session' = d
  /\ site' = ""
  /\ storage_type' = ""
  /\ responses' = <<>>
  /\ returned' = "None"
  /\ returned_sizes' = <<>>
  /\ requests' = 0
  /\ cached_before' = <<>>
  /\ requested_size' = 0
  /\ available_sizes' = <<>>
  /\ has_items' = FALSE
  /\ suitable_size' = <<>>
  /\ shown' = "nothing"
  /\ pricing_shown' = "nothing"
  /\ UNCHANGED <<TOKEN, SITE_PRICING, returned_units, facility_code, calls, estVars, proVars,
                 estimates, raceVars>>

\* a handler called get_available_sizes(s, t) and no more of the core
Listed(handler, s, t, listed, answers, d) ==
  /\ op' = handler
  /\ session' = d
  /\ site' = s
  /\ storage_type' = t
  /\ responses' = answers
  /\ returned' = IF listed.raised THEN "raised" ELSE "list"
  /\ returned_sizes' = listed.sizes
  /\ requests' = listed.requests
  /\ SITE_PRICING' = listed.pricing
  /\ cached_before' = CachedFor(SITE_PRICING, s, t)
  /\ requested_size' = 0
  /\ available_sizes' = <<>>
  /\ has_items' = FALSE
  /\ suitable_size' = <<>>
  /\ shown' = "nothing"
  /\ pricing_shown' = "nothing"
  /\ UNCHANGED <<TOKEN, returned_units, facility_code, calls, estVars, proVars,
                 estimates, raceVars>>

WebStart ==
  \E name \in {"Ann"} : Stored("web_start", start(session, name))

ItemsInput ==
  /\ "customer_name" \in DOMAIN session
  /\ \E description \in WebDescriptions :
       Stored("items_input", items_input(session, description))

ChooseStorageTypeForItems ==
  /\ "customer_name" \in DOMAIN session /\ "description" \in DOMAIN session
  /\ \E form_type \in FormTypes :
       Stored("choose_storage_type_for_items", choose_storage_type_for_items(session, form_type))

ChooseSize ==
  /\ "customer_name" \in DOMAIN session
  /\ \E form_type \in FormTypes :
       Stored("choose_size", choose_size(session, form_type))

SelectSite ==
  /\ "customer_name" \in DOMAIN session
  /\ \E form_site \in FormSites :
       Stored("select_site", select_site(session, form_site))

VehicleWarning ==
  \E switch \in {"yes", "no"} : Stored("vehicle_warning", vehicle_warning(session, switch))

\* process_items, told apart by whether it stored the calculated size or
\* sent the customer to the vehicle warning
ProcessItems ==
  /\ "customer_name" \in DOMAIN session /\ "description" \in DOMAIN session
  /\ "storage_type" \in DOMAIN session
  /\ "site" \in DOMAIN session
  /\ \E d \in {process_items(session)} :
       Stored(IF /\ Described[session["description"]].vehicle_mentioned
                 /\ session["storage_type"] = "internal"
              THEN "process_items_vehicle" ELSE "process_items", d)

SelectKnownSize ==
  /\ "customer_name" \in DOMAIN session
  /\ "site" \in DOMAIN session
  /\ \E answers \in WebAnswers, form \in {"GET"} \cup FormSizes :
       \E listed \in {get_available_sizes(session["site"],
                        SessionGet(session, "storage_type", "container"),
                        TOKEN, SITE_PRICING, answers[1], answers[2])} :
         Listed("select_known_size", session["site"],
                SessionGet(session, "storage_type", "container"), listed, answers,
                select_known_size(session, listed, form))

\* show_results with a size in the session
WebShowResults ==
  /\ "customer_name" \in DOMAIN session
  /\ "selected_size" \in DOMAIN session \/ "calculated_size" \in DOMAIN session
  /\ \E answers \in WebAnswers :
       \E r \in {show_results(session["site"], session["storage_type"], session_size(session),
                              SessionGet(session, "items", <<>>) # <<>>,
                              TOKEN, SITE_PRICING, answers[1], answers[2])} :
         Shows("show_results", session["site"], session["storage_type"],
               SessionGet(session, "items", <<>>) # <<>>, r, answers)

\* /api/availability/<site>/<storage_type>
ApiAvailability ==
  \E s \in UrlSites, t \in UrlTypes, answers \in WebAnswers :
    \E listed \in {get_available_sizes(s, t, TOKEN, SITE_PRICING, answers[1], answers[2])} :
      Listed("api_availability", s, t, listed, answers, session)

InitWeb ==
  /\ op = "start" /\ EstimateIdle /\ ResolveIdle /\ InventoryIdle /\ ProhibitedIdle
  /\ estimates = <<>> /\ pricing_shown = "nothing" /\ RaceIdle /\ WebIdle /\ TOKEN = TRUE

NextWeb ==
  \/ WebStart
  \/ ItemsInput
  \/ ChooseStorageTypeForItems
  \/ ChooseSize
  \/ SelectSite
  \/ VehicleWarning
  \/ ProcessItems
  \/ SelectKnownSize
  \/ WebShowResults
  \/ ApiAvailability

SpecWeb == InitWeb /\ [][NextWeb]_vars

\* the handlers of the web layer that call get_available_sizes
CallsAvailableSizes == {"select_known_size", "show_results", "api_availability"}

\* C23: the web layer calls available_sizes only with a site that is one of
\* the five registered sites and a storage type that is container or
\* internal, whichever of select_known_size, show_results and
\* /api/availability makes the call.
C23_CoreSeesRegisteredInput ==
  op \in CallsAvailableSizes =>
    /\ \E i \in DOMAIN VALID_SITES : VALID_SITES[i] = site
    /\ storage_type \in {"container", "internal"}

\* C26: when process_items has stored a calculated size and show_results
\* runs next, the size show_results resolves is that calculated size,
\* whatever the session did before.
C26_CalculatedSizeResolved ==
  [][(op = "process_items" /\ op' = "show_results") =>
       requested_size' = session["calculated_size"]]_vars

\* C30: in every state of a web session, a storage type of internal comes
\* with the site sunderland, and a session that has a site has a storage
\* type.
C30_InternalIsSunderland ==
  /\ ("storage_type" \in DOMAIN session /\ session["storage_type"] = "internal") =>
       ("site" \in DOMAIN session /\ session["site"] = "sunderland")
  /\ "site" \in DOMAIN session => "storage_type" \in DOMAIN session

\* select_site turned away another site for a session of internal storage
\* that went through choose_size
C30_Witness ==
  /\ op = "select_site"
  /\ "size_method" \in DOMAIN session
  /\ "description" \in DOMAIN session
  /\ session["storage_type"] = "internal"
  /\ session["site"] = "sunderland"

\* C28: when the inventory is the same for the two fetches of one
\* available_sizes call and every vacant unit of it has a positive rack rate,
\* every size of the returned sequence has an entry in the Cached Pricing
\* Table for the site and storage type of the call.
C28_AvailableSizesArePriced ==
  (/\ op = "get_available_sizes"
   /\ PricingFetched /\ UnitsFetched
   /\ responses[1] = responses[2]
   /\ \A i \in DOMAIN responses[2].units :
        responses[2].units[i].unit_status = "VACANT" => responses[2].units[i].rack_rate > 0) =>
    \A i \in DOMAIN returned_sizes :
      returned_sizes[i] \in DOMAIN CachedFor(SITE_PRICING, site, storage_type)

\* the table has an entry for site s and storage type t
HasEntry(pricing, s, t) == s \in DOMAIN pricing /\ t \in DOMAIN pricing[s]

\* C29: with one thread, fetch_pricing(site, storage_type) changes at most
\* the entry of its own site and storage type: the entry of every other site
\* and storage type is there or not and holds what it held before; and when
\* the credential is missing or the upstream call fails, by a network
\* failure or a status other than 200, the whole table is unchanged.
C29_OnlyOwnEntryChanges ==
  [][op' = "get_pricing_from_api" =>
       /\ \A s \in DOMAIN SITE_PRICING \cup DOMAIN SITE_PRICING', t \in StorageTypes :
            <<s, t>> # <<site', storage_type'>> =>
              /\ HasEntry(SITE_PRICING', s, t) = HasEntry(SITE_PRICING, s, t)
              /\ CachedFor(SITE_PRICING', s, t) = CachedFor(SITE_PRICING, s, t)
       /\ (\/ ~TOKEN
           \/ responses'[1].kind = "raise"
           \/ responses'[1].status_code # 200) => SITE_PRICING' = SITE_PRICING]_vars

\* a second fetch replaced the prices of its own storage type at a site
\* where the other storage type has prices
C29_Witness ==
  /\ op = "get_pricing_from_api"
  /\ calls = 2
  /\ returned = "True"
  /\ cached_before # CachedFor(SITE_PRICING, site, storage_type)
  /\ \E t \in StorageTypes :
       /\ t # storage_type
       /\ HasEntry(SITE_PRICING, site, t)
       /\ DOMAIN SITE_PRICING[site][t] # {}

=============================================================================
